---- MODULE Spec2Model ----
(***************************************************************************)
(* A model of the PLONK core of this repository: the permutation builder   *)
(* (src/permutation/mod.rs), the composer gadgets (range.rs,               *)
(* fixed_base.rs), preprocessing (preprocess.rs) and the circuit entry     *)
(* points with the verifier (circuit.rs, proof.rs, transcript.rs).         *)
(*                                                                         *)
(* The scalar field F is the prime field of order P; the embedded curve is *)
(* a twisted Edwards curve over the same field.                            *)
(***************************************************************************)
EXTENDS Integers, Naturals, Sequences, FiniteSets, TLC

VARIABLES perm, pout, cs, ctl, circ, stored

vars == <<perm, pout, cs, ctl, circ, stored>>

\* The value of a part of the state that a specification does not use
Idle == "idle"

(***************************************************************************)
(* Evaluation order.  The program computes a value once and then uses it;  *)
(* these operators say so.                                                 *)
(***************************************************************************)
\* let-sequencing: val is computed first, then next is applied to it
Bind(val, next(_)) == CHOOSE r \in {next(x) : x \in {val}} : TRUE

\* The sequence a function over 1 .. n denotes, computed once (Vec::collect)
collect(f) == f \o <<>>

\* The map a function denotes, computed once (collect into a map)
collect_map(f) == f @@ <<>>

(***************************************************************************)
(* The field F (ark_ff::PrimeField).                                       *)
(***************************************************************************)
P == 97

FAdd(a, b) == (a + b) % P

FSub(a, b) == (a + P - b) % P

FNeg(a) == (P - a) % P

FMul(a, b) == (a * b) % P

\* Field::pow, by squaring
RECURSIVE FPow(_, _)
FPow(a, e) ==
    IF e = 0 THEN 1
    ELSE LET h == FPow(a, e \div 2)
         IN  IF e % 2 = 0 THEN FMul(h, h) ELSE FMul(FMul(h, h), a)

\* Field::inverse: None for zero, the multiplicative inverse otherwise.
InvTable ==
    collect([x \in 1 .. (P - 1) |-> CHOOSE y \in 1 .. (P - 1) : (x * y) % P = 1])

FInv(a) == InvTable[a]

\* F::multiplicative_generator()
GENERATOR == 5

\* The 2-adicity of F: P - 1 = 2^TWO_ADICITY * odd.
TWO_ADICITY == 5

RECURSIVE Pow2(_)
Pow2(k) == IF k = 0 THEN 1 ELSE 2 * Pow2(k - 1)

(***************************************************************************)
(* GeneralEvaluationDomain::new(num_coeffs): the multiplicative subgroup   *)
(* of the next power of two >= num_coeffs; None when that power of two     *)
(* exceeds the 2-adicity of F.                                             *)
(***************************************************************************)
RECURSIVE NextPow2From(_, _)
NextPow2From(k, s) == IF s >= k THEN s ELSE NextPow2From(k, 2 * s)

next_power_of_two(k) == NextPow2From(k, 1)

DomainExists(num_coeffs) == next_power_of_two(num_coeffs) <= Pow2(TWO_ADICITY)

\* domain.size()
DomainSize(num_coeffs) == next_power_of_two(num_coeffs)

\* domain.group_gen() for the domain of the given size
group_gen(size) == FPow(GENERATOR, (P - 1) \div size)

\* The elements of every domain F supports, computed once.
RootsTable ==
    collect_map([k \in 0 .. TWO_ADICITY |->
                    collect([i \in 1 .. Pow2(k) |-> FPow(group_gen(Pow2(k)), i - 1)])])

RECURSIVE Log2(_)
Log2(size) == IF size <= 1 THEN 0 ELSE 1 + Log2(size \div 2)

\* domain.elements(): 1, w, w^2, ..., w^(size-1)
DomainElements(size) == RootsTable[Log2(size)]

(***************************************************************************)
(* Coset constants of the sigma encoding (permutation/constants.rs).       *)
(***************************************************************************)
K1 == 7

K2 == 13

K3 == 17

Wires == {"Left", "Right", "Output", "Fourth"}

WireData(w, g) == [wire |-> w, index |-> g]

(***************************************************************************)
(* Permutation (src/permutation/mod.rs).  variable_map is a function from  *)
(* the allocated variable indices to the list of slots of each.            *)
(***************************************************************************)
\* Permutation::new: no variable is allocated
PermNew == [v \in {} |-> <<>>]

\* Permutation::new_variable: the index is the number of keys.
NewVarIndex(variable_map) == Cardinality(DOMAIN variable_map)

\* An allocation that numbers the new variable one past the number of keys
new_variable_skipping(variable_map) ==
    LET var == NewVarIndex(variable_map) + 1
    IN  [v \in (DOMAIN variable_map) \cup {var} |->
            IF v = var THEN <<>> ELSE variable_map[v]]

new_variable(variable_map) ==
    LET var == NewVarIndex(variable_map)
    IN  [v \in (DOMAIN variable_map) \cup {var} |->
            IF v = var THEN <<>> ELSE variable_map[v]]

\* Permutation::valid_variables
valid_variables(variable_map, variables) ==
    \A var \in variables : var \in DOMAIN variable_map

\* Permutation::add_variable_to_map (the caller checks valid_variables)
add_variable_to_map(variable_map, var, wire_data) ==
    [variable_map EXCEPT ![var] = Append(@, wire_data)]

\* Permutation::add_variables_to_map
add_variables_to_map(variable_map, a, b, c, d, gate_index) ==
    LET m1 == add_variable_to_map(variable_map, a, WireData("Left", gate_index))
        m2 == add_variable_to_map(m1, b, WireData("Right", gate_index))
        m3 == add_variable_to_map(m2, c, WireData("Output", gate_index))
    IN  add_variable_to_map(m3, d, WireData("Fourth", gate_index))

\* The initial sigmas: every slot maps to itself.
IdentitySigmas(n) ==
    collect_map([w \in Wires |-> collect([g \in 1 .. n |-> WireData(w, g - 1)])])

\* A next-index rule that does not wrap: the last slot keeps itself.
next_index_no_wrap(wire_index, len) ==
    IF wire_index = len - 1 THEN wire_index ELSE wire_index + 1

\* Index of the next wire of a slot list: wraps around at the end.
next_index(wire_index, len) ==
    IF wire_index = len - 1 THEN 0 ELSE wire_index + 1

\* The values of the sigma table: a list of slots for every wire
SigmaTables == [Wires -> Seq([wire : Wires, index : Nat])]

\* The inner loop of compute_sigma_permutations over one variable's list.
SigmaOfVar(sigmas, wire_data, wire_index) ==
    Bind(wire_data, LAMBDA slots :
        LET rotated[acc \in SigmaTables, j \in Nat] ==
                IF j >= Len(slots) THEN acc
                ELSE rotated[[acc EXCEPT
                                 ![slots[j + 1].wire][slots[j + 1].index + 1] =
                                     slots[next_index(j, Len(slots)) + 1]],
                             j + 1]
        IN  rotated[sigmas, wire_index])

\* The outer loop, over the variables in the map's iteration order.
SigmaOfMap(sigmas, variable_map, order, k) ==
    LET visited[acc \in SigmaTables, j \in Nat] ==
            IF j > Len(order) THEN acc
            ELSE visited[SigmaOfVar(acc, variable_map[order[j]], 0), j + 1]
    IN  visited[sigmas, k]

\* Indexing sigmas[w][index] panics when a recorded gate index is >= n.
SlotsInRange(variable_map, n) ==
    \A v \in DOMAIN variable_map :
        \A i \in 1 .. Len(variable_map[v]) : variable_map[v][i].index < n

\* Permutation::compute_sigma_permutations(n), iterating the map in `order`.
compute_sigma_permutations(variable_map, n, order) ==
    SigmaOfMap(IdentitySigmas(n), variable_map, order, 1)

\* The iteration orders of a hash map with the given keys.
Orders(keys) ==
    {o \in [1 .. Cardinality(keys) -> keys] :
        \A i, j \in 1 .. Cardinality(keys) : i # j => o[i] # o[j]}

\* A sigma encoding with the cosets of the Right and Output wires exchanged.
lagrange_swapped_cosets(sigma_mapping, size) ==
    LET roots == DomainElements(size)
    IN  [i \in 1 .. Len(sigma_mapping) |->
            LET x == sigma_mapping[i]
                root == roots[x.index + 1]
            IN  CASE x.wire = "Left" -> root
                  [] x.wire = "Right" -> FMul(K2, root)
                  [] x.wire = "Output" -> FMul(K1, root)
                  [] x.wire = "Fourth" -> FMul(K3, root)]

\* Permutation::compute_permutation_lagrange
compute_permutation_lagrange(sigma_mapping, size) ==
    LET roots == DomainElements(size)
    IN  [i \in 1 .. Len(sigma_mapping) |->
            LET x == sigma_mapping[i]
                root == roots[x.index + 1]
            IN  CASE x.wire = "Left" -> root
                  [] x.wire = "Right" -> FMul(K1, root)
                  [] x.wire = "Output" -> FMul(K2, root)
                  [] x.wire = "Fourth" -> FMul(K3, root)]

(***************************************************************************)
(* Polynomials are coefficient sequences (DensePolynomial), lowest degree  *)
(* first; domain.fft / domain.ifft are the discrete Fourier transform and  *)
(* its inverse over the domain of the given size.                          *)
(***************************************************************************)
\* The sum of the first k entries of f
SumTo(f, k) ==
    LET summed[acc \in Nat, j \in Nat] ==
            IF j = 0 THEN acc ELSE summed[FAdd(f[j], acc), j - 1]
    IN  summed[0, k]

\* Entry i of s, zero beyond its length (the transforms pad with zeros).
At0(s, i) == IF i <= Len(s) THEN s[i] ELSE 0

\* DensePolynomial::from_coefficients_vec: drops the trailing zero coefficients.
from_coefficients_vec(c) ==
    Bind(c, LAMBDA coeffs :
        SubSeq(coeffs, 1,
               CHOOSE k \in 0 .. Len(coeffs) :
                   /\ (k = 0 \/ coeffs[k] # 0)
                   /\ \A j \in (k + 1) .. Len(coeffs) : coeffs[j] = 0))

\* domain.fft(coeffs): the evaluations at 1, w, ..., w^(size-1)
fft(coeffs, size) ==
    Bind(coeffs, LAMBDA given :
        collect([i \in 1 .. size |->
                    SumTo([j \in 1 .. size |->
                              FMul(At0(given, j),
                                   DomainElements(size)[(((i - 1) * (j - 1)) % size) + 1])],
                          size)]))

\* domain.ifft(evals): the coefficients of the interpolating polynomial
ifft(evals, size) ==
    Bind(evals, LAMBDA given :
        collect([j \in 1 .. size |->
                    FMul(FInv(size % P),
                         SumTo([i \in 1 .. size |->
                                   FMul(At0(given, i),
                                        DomainElements(size)[
                                            ((size - (((i - 1) * (j - 1)) % size))
                                             % size) + 1])],
                               size))]))

\* Polynomial evaluation (Horner)
EvalFrom(c, x, k) ==
    Bind(c, LAMBDA coeffs :
    Bind(x, LAMBDA point :
        LET horner[acc \in Nat, j \in Nat] ==
                IF j < k THEN acc
                ELSE horner[FAdd(coeffs[j], FMul(point, acc)), j - 1]
        IN  horner[0, Len(coeffs)]))

evaluate(c, x) == EvalFrom(c, x, 1)

\* A numerator factor that leaves out the coset constant.
numerator_without_coset(root, w, k, beta, gamma) ==
    FAdd(FAdd(w, FMul(beta, root)), gamma)

\* Permutation::numerator_irreducible
numerator_irreducible(root, w, k, beta, gamma) ==
    FAdd(FAdd(w, FMul(FMul(beta, k), root)), gamma)

\* Permutation::denominator_irreducible
denominator_irreducible(root, w, sigma, beta, gamma) ==
    FAdd(FAdd(w, FMul(beta, sigma)), gamma)

\* The constants defining the cosets H, k1 H, k2 H, k3 H
ks == <<1, K1, K2, K3>>

WireOrder == <<"Left", "Right", "Output", "Fourth">>

\* Product of the entries of a sequence
ProdTo(f, k) ==
    LET multiplied[acc \in Nat, j \in Nat] ==
            IF j = 0 THEN acc ELSE multiplied[FMul(f[j], acc), j - 1]
    IN  multiplied[1, k]

\* Number of gates the three-way zip of compute_permutation_poly yields.
ZipLen(wires, size) ==
    LET m1 == IF Len(wires[1]) < Len(wires[2]) THEN Len(wires[1]) ELSE Len(wires[2])
        m2 == IF Len(wires[3]) < Len(wires[4]) THEN Len(wires[3]) ELSE Len(wires[4])
        m3 == IF m1 < m2 THEN m1 ELSE m2
    IN  IF m3 < size THEN m3 ELSE size

\* Numerator product of gate j (1-based) in compute_permutation_poly
GateNumerator(wires, size, beta, gamma, j) ==
    LET gate_root == DomainElements(size)[j]
    IN  ProdTo([t \in 1 .. 4 |->
                   numerator_irreducible(gate_root, wires[t][j], ks[t], beta, gamma)],
               4)

\* Denominator product of gate j (1-based) in compute_permutation_poly
GateDenominator(wires, sigma_mappings, size, beta, gamma, j) ==
    LET gate_root == DomainElements(size)[j]
    IN  ProdTo([t \in 1 .. 4 |->
                   denominator_irreducible(gate_root, wires[t][j],
                                           sigma_mappings[t][j], beta, gamma)],
               4)

\* Running products: z[1] = 1, z[j+1] = z[j] * N_j / D_j
ZAccumulate(scalars, k) ==
    LET accumulated[z \in Seq(Nat), j \in Nat] ==
            IF j > k THEN z
            ELSE accumulated[Append(z, FMul(z[j], scalars[j])), j + 1]
    IN  accumulated[<<1>>, 1]

\* Permutation::compute_permutation_poly.  The result is the coefficient
\* vector of z; `panicked` is set when a denominator has no inverse
\* (d.inverse().unwrap()) or when z.remove(n) is out of range (z then has
\* fewer than n + 1 entries; otherwise it has exactly n + 1 and n remain).
compute_permutation_poly(size, wires, beta, gamma, sigma_polys) ==
    Bind(collect([t \in 1 .. 4 |-> fft(sigma_polys[t], size)]), LAMBDA sigma_evals :
    Bind(ZipLen(wires, size), LAMBDA m :
    Bind(collect([j \in 1 .. m |->
                     GateDenominator(wires, sigma_evals, size, beta, gamma, j)]),
         LAMBDA dens :
    IF \E j \in 1 .. m : dens[j] = 0
    THEN [panicked |-> TRUE, z_poly |-> <<>>] ELSE
    Bind(collect([j \in 1 .. m |->
                     FMul(GateNumerator(wires, size, beta, gamma, j),
                          FInv(dens[j]))]),
         LAMBDA product_argument :
    Bind(ZAccumulate(product_argument, m), LAMBDA z :
    IF size >= Len(z)
    THEN [panicked |-> TRUE, z_poly |-> <<>>]
    ELSE [panicked |-> FALSE,
          z_poly |-> from_coefficients_vec(ifft(SubSeq(z, 1, size), size))])))))

\* Permutation::compute_sigma_polynomials: the sigma permutations, their
\* encodings over the domain, and the interpolated polynomials.
compute_sigma_polynomials(variable_map, n, size, order) ==
    Bind(compute_sigma_permutations(variable_map, n, order), LAMBDA sigmas :
    Bind(collect([t \in 1 .. 4 |->
                     collect(compute_permutation_lagrange(sigmas[WireOrder[t]],
                                                          size))]),
         LAMBDA lagrange :
    [sigmas |-> sigmas,
     lagrange |-> lagrange,
     polys |-> collect([t \in 1 .. 4 |->
                           from_coefficients_vec(ifft(lagrange[t], size))])]))

(***************************************************************************)
(* Bounds of the permutation driver.                                       *)
(***************************************************************************)
MaxVars == 3

MaxGates == 3

MaxN == 4

\* Values given to variables
ValSet == {1, 2}

\* Challenge values tried for beta and gamma
ChalSet == {0, 3, 11}

\* Wire assignments (a, b, c, d) offered to add_variables_to_map
GateMenu ==
    { <<0, 0, 0, 0>>, <<0, 1, 0, 1>>, <<0, 1, 2, 0>>, <<1, 0, 2, 2>>,
      <<2, 1, 1, 0>> }

NoOut ==
    [stage |-> "build", n |-> 0, size |-> 0, sigmas |-> <<>>, lagrange |-> <<>>,
     polys |-> <<>>, wires |-> <<>>, beta |-> 0, gamma |-> 0, z_poly |-> <<>>]

\* Permutation::new(), with no gates recorded
InitPerm ==
    /\ perm = [variable_map |-> PermNew, values |-> <<>>, gates |-> <<>>]
    /\ pout = NoOut
    /\ cs = Idle
    /\ ctl = Idle
    /\ circ = Idle
    /\ stored = Idle

\* perm.new_variable(), the caller recording the value it stands for
PermNewVariable(val) ==
    /\ pout.stage = "build"
    /\ NewVarIndex(perm.variable_map) < MaxVars
    /\ perm' = [perm EXCEPT !.variable_map = new_variable(@),
                            !.values = Append(@, val)]
    /\ UNCHANGED <<pout, cs, ctl, circ, stored>>

\* perm.add_variables_to_map(a, b, c, d, gate_index) for the next gate;
\* the assertion on valid_variables panics for an unallocated variable.
PermAddVariablesToMap(g) ==
    /\ pout.stage = "build"
    /\ Len(perm.gates) < MaxGates
    /\ IF valid_variables(perm.variable_map, {g[1], g[2], g[3], g[4]})
       THEN /\ perm' = [perm EXCEPT
                          !.variable_map = add_variables_to_map(
                              @, g[1], g[2], g[3], g[4], Len(perm.gates)),
                          !.gates = Append(@, g)]
            /\ UNCHANGED <<pout, cs, ctl, circ, stored>>
       ELSE /\ pout' = [pout EXCEPT !.stage = "panic"]
            /\ UNCHANGED <<perm, cs, ctl, circ, stored>>

\* Column t of the wire values, the rows beyond the recorded gates holding
\* the zero value (as padding does).
WireColumn(t, n) ==
    [j \in 1 .. n |->
        IF j <= Len(perm.gates) THEN perm.values[perm.gates[j][t] + 1] ELSE 0]

\* perm.compute_sigma_polynomials(n, domain) with domain = new(n)
PermComputeSigmaPolynomials(n, order) ==
    /\ pout.stage = "build"
    /\ DomainExists(n)
    /\ IF SlotsInRange(perm.variable_map, n)
       THEN LET dsize == DomainSize(n)
                r == compute_sigma_polynomials(perm.variable_map, n, dsize, order)
            IN  pout' = [pout EXCEPT !.stage = "sigma", !.n = n, !.size = dsize,
                                     !.sigmas = r.sigmas, !.lagrange = r.lagrange,
                                     !.polys = r.polys,
                                     !.wires = [t \in 1 .. 4 |-> WireColumn(t, n)]]
       ELSE pout' = [pout EXCEPT !.stage = "panic"]
    /\ UNCHANGED <<perm, cs, ctl, circ, stored>>

\* perm.compute_permutation_poly(domain, wires, beta, gamma, sigma_polys)
PermComputePermutationPoly(b, g) ==
    /\ pout.stage = "sigma"
    /\ LET r == compute_permutation_poly(pout.size, pout.wires, b, g, pout.polys)
       IN  pout' = [pout EXCEPT !.stage = IF r.panicked THEN "panic" ELSE "z",
                                !.beta = b, !.gamma = g, !.z_poly = r.z_poly]
    /\ UNCHANGED <<perm, cs, ctl, circ, stored>>

NextPerm ==
    \/ \E val \in ValSet : PermNewVariable(val)
    \/ \E g \in GateMenu : PermAddVariablesToMap(g)
    \/ \E n \in 1 .. MaxN :
          \E order \in Orders(DOMAIN perm.variable_map) :
              PermComputeSigmaPolynomials(n, order)
    \/ \E beta \in ChalSet : \E gamma \in ChalSet :
          PermComputePermutationPoly(beta, gamma)

SpecPerm == InitPerm /\ [][NextPerm]_vars

(***************************************************************************)
(* The composer (StandardComposer).  A composer is a record of the gate    *)
(* count n, the eleven selector vectors, the four wire vectors, the        *)
(* witness assignment, the public inputs, the permutation builder's map    *)
(* and the zero variable.                                                  *)
(***************************************************************************)
SelectorNames ==
    {"q_m", "q_l", "q_r", "q_o", "q_4", "q_c", "q_arith", "q_range", "q_logic",
     "q_fixed_group_add", "q_variable_group_add"}

\* A row's selectors, all zero
ZeroSelectors == [name \in SelectorNames |-> 0]

\* Appends k copies of val to a vector (Vec::extend)
Extend(vec, k, val) == vec \o [i \in 1 .. k |-> val]

\* composer.add_input(value): a fresh variable bound to value
add_input(c, value) ==
    [c EXCEPT !.perm = new_variable(@),
              !.variables = [v \in (DOMAIN @) \cup {NewVarIndex(c.perm)} |->
                                IF v = NewVarIndex(c.perm) THEN value ELSE @[v]]]

\* Appends one gate row with the given wires, selectors and optional public
\* input, and records its four slots in the permutation map.
PushRow(c, a, b, o, d, sel, pi) ==
    [c EXCEPT !.w_l = Append(@, a), !.w_r = Append(@, b),
              !.w_o = Append(@, o), !.w_4 = Append(@, d),
              !.q_m = Append(@, sel.q_m), !.q_l = Append(@, sel.q_l),
              !.q_r = Append(@, sel.q_r), !.q_o = Append(@, sel.q_o),
              !.q_4 = Append(@, sel.q_4), !.q_c = Append(@, sel.q_c),
              !.q_arith = Append(@, sel.q_arith),
              !.q_range = Append(@, sel.q_range),
              !.q_logic = Append(@, sel.q_logic),
              !.q_fixed_group_add = Append(@, sel.q_fixed_group_add),
              !.q_variable_group_add = Append(@, sel.q_variable_group_add),
              !.public_inputs =
                  IF pi = <<>> THEN @ ELSE Append(@, [pos |-> c.n, value |-> pi[1]]),
              !.perm = add_variables_to_map(@, a, b, o, d, c.n),
              !.n = @ + 1]

\* composer.poly_gate(a, b, c, q_m, q_l, q_r, q_o, q_c, pi)
poly_gate(c, a, b, o, qm, ql, qr, qo, qc, pi) ==
    PushRow(c, a, b, o, c.zero_var,
            [ZeroSelectors EXCEPT !.q_m = qm, !.q_l = ql, !.q_r = qr, !.q_o = qo,
                                  !.q_c = qc, !.q_arith = 1],
            pi)

\* composer.big_add_gate(a, b, c, d, q_l, q_r, q_o, q_4, q_c, pi); d = <<>>
\* stands for None and takes the zero variable.
big_add_gate(c, a, b, o, d, ql, qr, qo, q4, qc, pi) ==
    PushRow(c, a, b, o, IF d = <<>> THEN c.zero_var ELSE d[1],
            [ZeroSelectors EXCEPT !.q_l = ql, !.q_r = qr, !.q_o = qo, !.q_4 = q4,
                                  !.q_c = qc, !.q_arith = 1],
            pi)

\* composer.constrain_to_constant(a, constant, pi): q_l = 1, q_c = -constant
constrain_to_constant(c, a, constant, pi) ==
    poly_gate(c, a, a, a, 0, 1, 0, 0, FNeg(constant), pi)

\* composer.assert_equal(a, b): one gate constraining a - b = 0
assert_equal(c, a, b) ==
    poly_gate(c, a, b, c.zero_var, 0, 1, FNeg(1), 0, 0, <<>>)

\* StandardComposer::new(): the zero variable is allocated and constrained
\* to zero by the first gate.
NewComposer ==
    LET empty == [n |-> 0,
                  q_m |-> <<>>, q_l |-> <<>>, q_r |-> <<>>, q_o |-> <<>>,
                  q_4 |-> <<>>, q_c |-> <<>>, q_arith |-> <<>>, q_range |-> <<>>,
                  q_logic |-> <<>>, q_fixed_group_add |-> <<>>,
                  q_variable_group_add |-> <<>>,
                  w_l |-> <<>>, w_r |-> <<>>, w_o |-> <<>>, w_4 |-> <<>>,
                  variables |-> [v \in {} |-> 0],
                  public_inputs |-> <<>>,
                  perm |-> PermNew,
                  zero_var |-> 0]
    IN  constrain_to_constant(add_input(empty, 0), 0, 0, <<>>)

\* composer.circuit_size()
circuit_size(c) == c.n

(***************************************************************************)
(* The range gadget (src/constraint_system/range.rs).                      *)
(***************************************************************************)
\* Bits of the representation of a field element (BigInteger)
REPR_BITS == 8

\* into_repr().to_bits_le(): REPR_BITS bits, least significant first
to_bits_le(value) == [k \in 1 .. REPR_BITS |-> (value \div Pow2(k - 1)) % 2]

\* The add_wire closure of range_gate; n is not advanced while the wires
\* are laid out, so circuit_size() is the size at entry.
add_wire(c, i, variable) ==
    LET gate_index == circuit_size(c) + (i \div 4)
    IN  CASE i % 4 = 0 ->
               [c EXCEPT !.w_4 = Append(@, variable),
                         !.perm = add_variable_to_map(
                                      @, variable, WireData("Fourth", gate_index))]
          [] i % 4 = 1 ->
               [c EXCEPT !.w_o = Append(@, variable),
                         !.perm = add_variable_to_map(
                                      @, variable, WireData("Output", gate_index))]
          [] i % 4 = 2 ->
               [c EXCEPT !.w_r = Append(@, variable),
                         !.perm = add_variable_to_map(
                                      @, variable, WireData("Right", gate_index))]
          [] i % 4 = 3 ->
               [c EXCEPT !.w_l = Append(@, variable),
                         !.perm = add_variable_to_map(
                                      @, variable, WireData("Left", gate_index))]

\* for i in 0..pad { add_wire(self, i, self.zero_var) }
RECURSIVE RangePadLoop(_, _, _)
RangePadLoop(c, i, pad_quads) ==
    IF i >= pad_quads THEN c
    ELSE RangePadLoop(add_wire(c, i, c.zero_var), i + 1, pad_quads)

\* for i in pad..=num_quads { ... }: the accumulators, most significant quad
\* first.  Reading a bit beyond the representation panics.
RECURSIVE RangeQuadLoop(_, _, _, _, _, _)
RangeQuadLoop(c, bits, num_quads, i, accumulator, accumulators) ==
    IF i > num_quads
    THEN [c |-> c, accumulators |-> accumulators, panicked |-> FALSE]
    ELSE LET bit_index == (num_quads - i) * 2
         IN  IF bit_index + 1 >= Len(bits)
             THEN [c |-> c, accumulators |-> accumulators, panicked |-> TRUE]
             ELSE LET q_0 == bits[bit_index + 1]
                      q_1 == bits[bit_index + 2]
                      quad == q_0 + (2 * q_1)
                      next_acc == FAdd(FMul(4, accumulator), quad)
                      accumulator_var == NewVarIndex(c.perm)
                  IN  RangeQuadLoop(
                          add_wire(add_input(c, next_acc), i, accumulator_var),
                          bits, num_quads, i + 1, next_acc,
                          Append(accumulators, accumulator_var))

\* range_gate after its assertion on num_bits: the wires, the selectors and
\* the link of the last accumulator to the witness.
RangeGateQuads(c, witness, num_bits) ==
    LET witness_bits == to_bits_le(c.variables[witness])
        num_gates == (num_bits \div 8) + (IF num_bits % 8 # 0 THEN 1 ELSE 0)
        quads == num_gates * 4
        pad_count == 1 + (((quads * 2) - num_bits) \div 2)
        used_gates == num_gates + 1
        padded == RangePadLoop(c, 0, pad_count)
        looped == RangeQuadLoop(padded, witness_bits, quads, pad_count, 0, <<>>)
        c1 == looped.c
        c2 == [c1 EXCEPT
                 !.q_m = Extend(@, used_gates, 0), !.q_l = Extend(@, used_gates, 0),
                 !.q_r = Extend(@, used_gates, 0), !.q_o = Extend(@, used_gates, 0),
                 !.q_c = Extend(@, used_gates, 0),
                 !.q_arith = Extend(@, used_gates, 0),
                 !.q_4 = Extend(@, used_gates, 0),
                 !.q_fixed_group_add = Extend(@, used_gates, 0),
                 !.q_variable_group_add = Extend(@, used_gates, 0),
                 !.q_range = Extend(@, used_gates - 1, 1) \o <<0>>,
                 !.q_logic = Extend(@, used_gates, 0),
                 !.n = @ + used_gates,
                 !.w_l = Append(@, c.zero_var),
                 !.w_r = Append(@, c.zero_var),
                 !.w_o = Append(@, c.zero_var)]
        accs == looped.accumulators
    IN  IF looped.panicked THEN [c |-> c1, panicked |-> TRUE]
        ELSE IF Len(accs) = 0 THEN [c |-> c2, panicked |-> TRUE]
        ELSE [c |-> assert_equal(c2, accs[Len(accs)], witness), panicked |-> FALSE]

\* A range gate that checks num_bits only after the gates are laid out
range_gate_asserting_late(c, witness, num_bits) ==
    LET laid == RangeGateQuads(c, witness, num_bits)
    IN  IF num_bits % 2 # 0 THEN [c |-> laid.c, panicked |-> TRUE] ELSE laid

\* A range gate that leaves the range selector on in its last gate
range_gate_closing_in_range(c, witness, num_bits) ==
    IF num_bits % 2 # 0 THEN [c |-> c, panicked |-> TRUE]
    ELSE LET laid == RangeGateQuads(c, witness, num_bits)
             last == c.n + ((num_bits + 7) \div 8) + 1
         IN  IF laid.panicked THEN laid
             ELSE [laid EXCEPT !.c.q_range = [@ EXCEPT ![last] = 1]]

\* A range gate that advances n by num_bits / 4
range_gate_counting_quads(c, witness, num_bits) ==
    IF num_bits % 2 # 0 THEN [c |-> c, panicked |-> TRUE]
    ELSE LET laid == RangeGateQuads(c, witness, num_bits)
         IN  [laid EXCEPT !.c.n = c.n + (num_bits \div 4)]

\* composer.range_gate(witness, num_bits).  The result is the composer as the
\* call leaves it and whether the call panicked; assert!(num_bits % 2 == 0)
\* comes before the first change.
range_gate(c, witness, num_bits) ==
    IF num_bits % 2 # 0 THEN [c |-> c, panicked |-> TRUE]
    ELSE RangeGateQuads(c, witness, num_bits)

\* A padding whose rows switch the arithmetic selector on
pad_arith_rows(c, diff) ==
    [c EXCEPT
       !.q_m = Extend(@, diff, 0), !.q_l = Extend(@, diff, 0),
       !.q_r = Extend(@, diff, 0), !.q_o = Extend(@, diff, 0),
       !.q_c = Extend(@, diff, 0), !.q_4 = Extend(@, diff, 0),
       !.q_arith = Extend(@, diff, 1), !.q_range = Extend(@, diff, 0),
       !.q_logic = Extend(@, diff, 0),
       !.q_fixed_group_add = Extend(@, diff, 0),
       !.q_variable_group_add = Extend(@, diff, 0),
       !.w_l = Extend(@, diff, c.zero_var), !.w_r = Extend(@, diff, c.zero_var),
       !.w_o = Extend(@, diff, c.zero_var), !.w_4 = Extend(@, diff, c.zero_var),
       !.n = @ + diff]

\* A padding that advances n but appends no row
pad_n_only(c, diff) == [c EXCEPT !.n = @ + diff]

\* composer.pad(diff) (src/proof_system/preprocess.rs)
pad(c, diff) ==
    [c EXCEPT
       !.q_m = Extend(@, diff, 0), !.q_l = Extend(@, diff, 0),
       !.q_r = Extend(@, diff, 0), !.q_o = Extend(@, diff, 0),
       !.q_c = Extend(@, diff, 0), !.q_4 = Extend(@, diff, 0),
       !.q_arith = Extend(@, diff, 0), !.q_range = Extend(@, diff, 0),
       !.q_logic = Extend(@, diff, 0),
       !.q_fixed_group_add = Extend(@, diff, 0),
       !.q_variable_group_add = Extend(@, diff, 0),
       !.w_l = Extend(@, diff, c.zero_var), !.w_r = Extend(@, diff, c.zero_var),
       !.w_o = Extend(@, diff, c.zero_var), !.w_4 = Extend(@, diff, c.zero_var),
       !.n = @ + diff]

(***************************************************************************)
(* The embedded twisted Edwards curve a x^2 + y^2 = 1 + d x^2 y^2 over F  *)
(* (TEModelParameters) and its group law.  Points are pairs <<x, y>>.      *)
(***************************************************************************)
COEFF_A == P - 1

COEFF_D == 14

\* P::AFFINE_GENERATOR_COEFFS: a generator of the prime-order subgroup
AFFINE_GENERATOR_COEFFS == <<7, 86>>

\* GroupAffine::zero(): the identity (0, 1)
te_zero == <<0, 1>>

\* GroupAffine addition
te_add(p1, p2) ==
    LET x1x2 == FMul(p1[1], p2[1])
        y1y2 == FMul(p1[2], p2[2])
        dxy == FMul(COEFF_D, FMul(x1x2, y1y2))
    IN  << FMul(FAdd(FMul(p1[1], p2[2]), FMul(p1[2], p2[1])), FInv(FAdd(1, dxy))),
           FMul(FSub(y1y2, FMul(COEFF_A, x1x2)), FInv(FSub(1, dxy))) >>

\* GroupAffine negation
te_neg(p1) == <<FNeg(p1[1]), p1[2]>>

\* GroupProjective::double
te_double(p1) == te_add(p1, p1)

\* AffineCurve::mul by an integer scalar (double and add)
RECURSIVE te_mul(_, _)
te_mul(p1, k) ==
    IF k = 0 THEN te_zero
    ELSE LET half == te_double(te_mul(p1, k \div 2))
         IN  IF k % 2 = 0 THEN half ELSE te_add(half, p1)

\* Bit length of the modulus of F
MODULUS_BITS == 7

\* compute_wnaf_point_multiples: 2^i * base_point for i < MODULUS_BITS
RECURSIVE WnafMultiplesFrom(_, _)
WnafMultiplesFrom(multiples, i) ==
    IF i >= MODULUS_BITS THEN multiples
    ELSE WnafMultiplesFrom(Append(multiples, te_double(multiples[i])), i + 1)

compute_wnaf_point_multiples(base_point) == WnafMultiplesFrom(<<base_point>>, 1)

\* Vec::reverse
Reverse(vec) == [i \in 1 .. Len(vec) |-> vec[Len(vec) + 1 - i]]

\* BigInteger::find_wnaf(2): the signed digits of e, least significant first
RECURSIVE find_wnaf(_)
find_wnaf(e) ==
    IF e = 0 THEN <<>>
    ELSE IF e % 2 = 1
         THEN LET z == IF e % 4 >= 2 THEN (e % 4) - 4 ELSE e % 4
              IN  <<z>> \o find_wnaf((e - z) \div 2)
         ELSE <<0>> \o find_wnaf(e \div 2)

\* The accumulators of fixed_base_scalar_mul, loaded from the wnaf entries
\* (most significant entry first).
RECURSIVE WnafAccumulate(_, _, _, _, _)
WnafAccumulate(entries, multiples, tz, i, acc) ==
    IF i >= Len(entries) THEN acc
    ELSE LET index == i + tz
             entry == entries[Len(entries) - i]
             scalar_to_add == CASE entry = 0 -> 0
                                [] entry = -1 -> FNeg(1)
                                [] entry = 1 -> 1
             point_to_add == CASE entry = 0 -> te_zero
                               [] entry = -1 -> te_neg(multiples[index + 1])
                               [] entry = 1 -> multiples[index + 1]
             prev_accumulator == FMul(2, acc.scalar_acc[index + 1])
         IN  WnafAccumulate(
                 entries, multiples, tz, i + 1,
                 [scalar_acc |-> Append(acc.scalar_acc,
                                        FAdd(prev_accumulator, scalar_to_add)),
                  point_acc |-> Append(acc.point_acc,
                                       te_add(acc.point_acc[index + 1], point_to_add)),
                  xy_alphas |-> Append(acc.xy_alphas,
                                       FMul(point_to_add[1], point_to_add[2]))])

\* composer.fixed_group_add(wnaf_round): one row of the fixed-base widget
fixed_group_add(c, acc_x, acc_y, accumulated_bit, xy_alpha, x_beta, y_beta, xy_beta) ==
    PushRow(c, acc_x, acc_y, xy_alpha, accumulated_bit,
            [ZeroSelectors EXCEPT !.q_l = x_beta, !.q_r = y_beta, !.q_c = xy_beta,
                                  !.q_fixed_group_add = 1],
            <<>>)

\* An emission loop that constrains the first accumulator after its
\* fixed-group-add row
RECURSIVE FixedBaseLoopGateFirst(_, _, _, _)
FixedBaseLoopGateFirst(c, i, acc, multiples) ==
    IF i >= MODULUS_BITS THEN c
    ELSE LET acc_x == NewVarIndex(c.perm)
             acc_y == acc_x + 1
             accumulated_bit == acc_x + 2
             xy_alpha == acc_x + 3
             c1 == add_input(add_input(add_input(add_input(c,
                       acc.point_acc[i + 1][1]), acc.point_acc[i + 1][2]),
                       acc.scalar_acc[i + 1]), acc.xy_alphas[i + 1])
             x_beta == multiples[i + 1][1]
             y_beta == multiples[i + 1][2]
             c2 == fixed_group_add(c1, acc_x, acc_y, accumulated_bit, xy_alpha,
                                   x_beta, y_beta, FMul(x_beta, y_beta))
             c3 == IF i = 0
                   THEN constrain_to_constant(
                            constrain_to_constant(
                                constrain_to_constant(c2, acc_x, 0, <<>>),
                                acc_y, 1, <<>>),
                            accumulated_bit, 0, <<>>)
                   ELSE c2
         IN  FixedBaseLoopGateFirst(c3, i + 1, acc, multiples)

\* for i in 0..num_bits { ... } of fixed_base_scalar_mul
RECURSIVE FixedBaseLoop(_, _, _, _)
FixedBaseLoop(c, i, acc, multiples) ==
    IF i >= MODULUS_BITS THEN c
    ELSE LET acc_x == NewVarIndex(c.perm)
             acc_y == acc_x + 1
             accumulated_bit == acc_x + 2
             xy_alpha == acc_x + 3
             c1 == add_input(add_input(add_input(c, acc.point_acc[i + 1][1]),
                                       acc.point_acc[i + 1][2]),
                             acc.scalar_acc[i + 1])
             c2 == IF i = 0
                   THEN constrain_to_constant(
                            constrain_to_constant(
                                constrain_to_constant(c1, acc_x, 0, <<>>),
                                acc_y, 1, <<>>),
                            accumulated_bit, 0, <<>>)
                   ELSE c1
             x_beta == multiples[i + 1][1]
             y_beta == multiples[i + 1][2]
             c3 == add_input(c2, acc.xy_alphas[i + 1])
         IN  FixedBaseLoop(
                 fixed_group_add(c3, acc_x, acc_y, accumulated_bit, xy_alpha,
                                 x_beta, y_beta, FMul(x_beta, y_beta)),
                 i + 1, acc, multiples)

\* composer.fixed_base_scalar_mul(scalar, base_point).  The result is the
\* composer as the call leaves it, whether it panicked, and the returned
\* Point (its two variables).
fixed_base_scalar_mul(c, scalar, base_point) ==
    LET point_multiples == Reverse(compute_wnaf_point_multiples(base_point))
        wnaf_entries == find_wnaf(c.variables[scalar])
        n_trailing_zeros == MODULUS_BITS - Len(wnaf_entries)
        filled == WnafAccumulate(
                      wnaf_entries, point_multiples, n_trailing_zeros, 0,
                      [scalar_acc |-> Extend(<<0>>, n_trailing_zeros, 0),
                       point_acc |-> Extend(<<te_zero>>, n_trailing_zeros, te_zero),
                       xy_alphas |-> Extend(<<>>, n_trailing_zeros, 0)])
        c1 == FixedBaseLoop(c, 0, filled, point_multiples)
        last_x == NewVarIndex(c1.perm)
        last_y == last_x + 1
        last_accumulated_bit == last_x + 2
        c2 == add_input(add_input(add_input(c1, filled.point_acc[MODULUS_BITS + 1][1]),
                                  filled.point_acc[MODULUS_BITS + 1][2]),
                        filled.scalar_acc[MODULUS_BITS + 1])
        c3 == big_add_gate(c2, last_x, last_y, c.zero_var, <<last_accumulated_bit>>,
                           0, 0, 0, 0, 0, <<>>)
    IN  IF Len(wnaf_entries) > MODULUS_BITS
        THEN [c |-> c, panicked |-> TRUE, point |-> <<>>]
        ELSE [c |-> assert_equal(c3, last_accumulated_bit, scalar),
              panicked |-> FALSE,
              point |-> <<last_x, last_y>>]

\* composer.assert_equal_public_point(point, public_point)
assert_equal_public_point(c, point, public_point) ==
    constrain_to_constant(
        constrain_to_constant(c, point[1], 0, <<FNeg(public_point[1])>>),
        point[2], 0, <<FNeg(public_point[2])>>)

(***************************************************************************)
(* The gate identities a witness has to satisfy, row by row.               *)
(***************************************************************************)
\* The value the witness assignment gives to a variable
ValueOf(c, var) == c.variables[var]

\* The public input of row i (1-based): the sum of the values recorded there
RECURSIVE PublicInputAt(_, _, _)
PublicInputAt(c, i, k) ==
    IF k = 0 THEN 0
    ELSE FAdd(IF c.public_inputs[k].pos = i - 1 THEN c.public_inputs[k].value ELSE 0,
              PublicInputAt(c, i, k - 1))

\* The arithmetic identity of row i
ArithmeticHolds(c, i) ==
    LET a == ValueOf(c, c.w_l[i])
        b == ValueOf(c, c.w_r[i])
        o == ValueOf(c, c.w_o[i])
        d == ValueOf(c, c.w_4[i])
    IN  (c.q_arith[i] * (c.q_m[i] * a * b + c.q_l[i] * a + c.q_r[i] * b
                         + c.q_o[i] * o + c.q_4[i] * d + c.q_c[i])
         + PublicInputAt(c, i, Len(c.public_inputs))) % P = 0

\* The row after row i on the domain (the last row is followed by the first)
NextRow(c, i) == (i % c.n) + 1

\* A difference next - 4 * prev that is a base-4 digit
IsQuad(next, prev) == FSub(next, FMul(4, prev)) \in {0, 1, 2, 3}

\* The range identity of row i: the accumulators d, c, b, a and the next
\* row's d each extend the previous one by a quad.
RangeHolds(c, i) ==
    c.q_range[i] # 0 =>
        LET a == ValueOf(c, c.w_l[i])
            b == ValueOf(c, c.w_r[i])
            o == ValueOf(c, c.w_o[i])
            d == ValueOf(c, c.w_4[i])
            d_next == ValueOf(c, c.w_4[NextRow(c, i)])
        IN  IsQuad(o, d) /\ IsQuad(b, o) /\ IsQuad(a, b) /\ IsQuad(d_next, a)

\* The fixed-base identity of row i: the scalar accumulator advances by a
\* digit in {-1, 0, 1} and the point accumulator by that digit times the
\* point (x_beta, y_beta) held in q_l, q_r (with q_c = x_beta * y_beta).
FixedGroupAddHolds(c, i) ==
    c.q_fixed_group_add[i] # 0 =>
        LET acc_x == ValueOf(c, c.w_l[i])
            acc_y == ValueOf(c, c.w_r[i])
            xy_alpha == ValueOf(c, c.w_o[i])
            acc_bit == ValueOf(c, c.w_4[i])
            acc_x_next == ValueOf(c, c.w_l[NextRow(c, i)])
            acc_y_next == ValueOf(c, c.w_r[NextRow(c, i)])
            acc_bit_next == ValueOf(c, c.w_4[NextRow(c, i)])
            bit == FSub(acc_bit_next, FMul(2, acc_bit))
            y_alpha == FAdd(FMul(FMul(bit, bit), FSub(c.q_r[i], 1)), 1)
            x_alpha == FMul(bit, c.q_l[i])
            dxy == FMul(COEFF_D, FMul(xy_alpha, FMul(acc_x, acc_y)))
        IN  /\ bit \in {0, 1, P - 1}
            /\ xy_alpha = FMul(bit, c.q_c[i])
            /\ FAdd(acc_x_next, FMul(acc_x_next, dxy))
                   = FAdd(FMul(acc_x, y_alpha), FMul(acc_y, x_alpha))
            /\ FSub(acc_y_next, FMul(acc_y_next, dxy))
                   = FAdd(FMul(acc_y, y_alpha), FMul(acc_x, x_alpha))

\* All gate rows hold for the witness assignment
Satisfied(c) ==
    \A i \in 1 .. c.n :
        ArithmeticHolds(c, i) /\ RangeHolds(c, i) /\ FixedGroupAddHolds(c, i)

(***************************************************************************)
(* The composer driven by a gadget: inputs, range gates and padding.       *)
(***************************************************************************)
MaxInputs == 1

MaxOps == 3

MaxPad == 2

\* Witness values offered to add_input
InputVals == {0, 3, 4, 15, 16, 63, 64, 85, 86, 96}

\* Values of num_bits offered to range_gate
RangeBits == {0, 2, 3, 4, 6, 8, 10}

InitComposer ==
    /\ cs = NewComposer
    /\ ctl = [status |-> "ok", op |-> "new", inputs |-> <<0>>, ops |-> 0,
              witness |-> 0, num_bits |-> 0, point |-> <<>>, public_point |-> <<>>]
    /\ perm = Idle
    /\ pout = Idle
    /\ circ = Idle
    /\ stored = Idle

\* composer.add_input(value), called by the gadget
CsAddInput(value) ==
    /\ ctl.status = "ok"
    /\ Len(ctl.inputs) <= MaxInputs
    /\ cs' = add_input(cs, value)
    /\ ctl' = [ctl EXCEPT !.op = "add_input",
                          !.inputs = Append(@, NewVarIndex(cs.perm))]
    /\ UNCHANGED <<perm, pout, circ, stored>>

\* composer.range_gate(witness, num_bits)
CsRangeGate(w, bits) ==
    /\ ctl.status = "ok"
    /\ ctl.ops < MaxOps
    /\ LET r == range_gate(cs, w, bits)
       IN  /\ cs' = r.c
           /\ ctl' = [ctl EXCEPT !.status = IF r.panicked THEN "panic" ELSE "ok",
                                 !.op = "range_gate", !.ops = @ + 1,
                                 !.witness = w, !.num_bits = bits]
    /\ UNCHANGED <<perm, pout, circ, stored>>

\* composer.pad(diff)
CsPad(k) ==
    /\ ctl.status = "ok"
    /\ ctl.ops < MaxOps
    /\ cs' = pad(cs, k)
    /\ ctl' = [ctl EXCEPT !.op = "pad", !.ops = @ + 1]
    /\ UNCHANGED <<perm, pout, circ, stored>>

\* composer.fixed_base_scalar_mul(scalar, generator)
CsFixedBaseScalarMul(w) ==
    /\ ctl.status = "ok"
    /\ ctl.ops < MaxOps
    /\ LET r == fixed_base_scalar_mul(cs, w, AFFINE_GENERATOR_COEFFS)
       IN  /\ cs' = r.c
           /\ ctl' = [ctl EXCEPT !.status = IF r.panicked THEN "panic" ELSE "ok",
                                 !.op = "fixed_base_scalar_mul", !.ops = @ + 1,
                                 !.witness = w, !.point = r.point]
    /\ UNCHANGED <<perm, pout, circ, stored>>

\* The points offered as expected results: multiples of the generator
PublicPoints == {te_mul(AFFINE_GENERATOR_COEFFS, j) : j \in InputVals \cup {1, 2}}

\* composer.assert_equal_public_point(point, q) on the point just returned
CsAssertEqualPublicPoint(q) ==
    /\ ctl.status = "ok"
    /\ ctl.op = "fixed_base_scalar_mul"
    /\ ctl.ops < MaxOps
    /\ cs' = assert_equal_public_point(cs, ctl.point, q)
    /\ ctl' = [ctl EXCEPT !.op = "assert_equal_public_point", !.ops = @ + 1,
                          !.public_point = q]
    /\ UNCHANGED <<perm, pout, circ, stored>>

NextComposer ==
    \/ \E value \in InputVals : CsAddInput(value)
    \/ \E k \in 1 .. Len(ctl.inputs) : \E bits \in RangeBits :
          CsRangeGate(ctl.inputs[k], bits)
    \/ \E k \in 1 .. Len(ctl.inputs) : CsFixedBaseScalarMul(ctl.inputs[k])
    \/ \E q \in PublicPoints : CsAssertEqualPublicPoint(q)
    \/ \E k \in 1 .. MaxPad : CsPad(k)

SpecComposer == InitComposer /\ [][NextComposer]_vars

\* The eleven selector vectors and the four wire vectors all have length n.
EqualLengths(c) ==
    /\ \A name \in SelectorNames : Len(c[name]) = c.n
    /\ Len(c.w_l) = c.n /\ Len(c.w_r) = c.n
    /\ Len(c.w_o) = c.n /\ Len(c.w_4) = c.n

\* C10: after every completed composer operation, in any sequence of
\* range_gate, fixed_base_scalar_mul and padding, the eleven selector vectors
\* and the four wire vectors all have length n.
C10_EqualLengths == ctl.status = "ok" => EqualLengths(cs)

\* A padding has completed on a composer that holds the rows of a range gate
\* and of a fixed-base multiplication.
C10_Witness ==
    /\ ctl.status = "ok"
    /\ ctl.op = "pad"
    /\ \E i \in 1 .. cs.n : cs.q_range[i] # 0
    /\ \E i \in 1 .. cs.n : cs.q_fixed_group_add[i] # 0

\* The point <<x, y>> assigned to the variables of a Point
PointValue(c, point) == <<ValueOf(c, point[1]), ValueOf(c, point[2])>>

\* For completed range gates on a fresh composer, the emitted rows are
\* accepted exactly for the witnesses below 2^num_bits.
RangeAcceptsBelowBound ==
    (ctl.status = "ok" /\ ctl.op = "range_gate" /\ ctl.ops = 1)
    => (Satisfied(cs) <=> ValueOf(cs, ctl.witness) < Pow2(ctl.num_bits))

\* C3: for every even num_bits b from 0 up to the bit length of the field
\* representation and every field element v, range_gate(v, b) completes and
\* its constraints are accepted if and only if v < 2^b.
C3_RangeAcceptsIff ==
    (ctl.op = "range_gate" /\ ctl.ops = 1
     /\ ctl.num_bits % 2 = 0 /\ ctl.num_bits <= REPR_BITS)
    => /\ ctl.status = "ok"
       /\ Satisfied(cs) <=> ValueOf(cs, ctl.witness) < Pow2(ctl.num_bits)

\* For completed fixed-base multiplications on a fresh composer the returned
\* point is [k]G, and asserting it equal to Q is accepted exactly for Q = [k]G.
FixedBaseCompletedCorrect ==
    /\ (ctl.status = "ok" /\ ctl.op = "fixed_base_scalar_mul")
       => PointValue(cs, ctl.point)
              = te_mul(AFFINE_GENERATOR_COEFFS, ValueOf(cs, ctl.witness))
    /\ (ctl.status = "ok" /\ ctl.op = "assert_equal_public_point" /\ ctl.ops = 2)
       => (Satisfied(cs) <=>
              ctl.public_point
                  = te_mul(AFFINE_GENERATOR_COEFFS, ValueOf(cs, ctl.witness)))

\* C4: for every scalar witness k in F, fixed_base_scalar_mul(k, G) returns a
\* point whose assigned value is [k]G, and asserting the result equal to a
\* public point Q is accepted when Q = [k]G and rejected otherwise.
C4_FixedBaseCorrect ==
    /\ ctl.op = "fixed_base_scalar_mul"
       => /\ ctl.status = "ok"
          /\ PointValue(cs, ctl.point)
                 = te_mul(AFFINE_GENERATOR_COEFFS, ValueOf(cs, ctl.witness))
    /\ (ctl.op = "assert_equal_public_point" /\ ctl.ops = 2)
       => (Satisfied(cs) <=>
              ctl.public_point
                  = te_mul(AFFINE_GENERATOR_COEFFS, ValueOf(cs, ctl.witness)))

(***************************************************************************)
(* Properties of the permutation builder.                                  *)
(***************************************************************************)
SigmasComputed == pout.stage \in {"sigma", "z"}

\* The slots recorded in some variable's list
SlotsOf(v) == perm.variable_map[v]

\* C7: compute_sigma_permutations rotates each variable's slot list by one:
\* every slot maps to the next slot of its variable and the last slot maps to
\* the first; a slot (wire, g) with g < n that is in no list maps to itself.
C7_SigmaRotation ==
    SigmasComputed =>
        /\ \A v \in DOMAIN perm.variable_map :
              \A i \in 1 .. Len(SlotsOf(v)) :
                  LET cur == SlotsOf(v)[i]
                      nxt == SlotsOf(v)[IF i = Len(SlotsOf(v)) THEN 1 ELSE i + 1]
                  IN  pout.sigmas[cur.wire][cur.index + 1] = nxt
        /\ \A w \in Wires : \A g \in 0 .. pout.n - 1 :
              (\A v \in DOMAIN perm.variable_map :
                   \A i \in 1 .. Len(SlotsOf(v)) : SlotsOf(v)[i] # WireData(w, g))
              => pout.sigmas[w][g + 1] = WireData(w, g)

\* A sigma was computed for a variable with at least three slots, over more
\* rows than gates were recorded (so that some slots are in no list).
C7_Witness ==
    /\ pout.stage = "sigma"
    /\ pout.n > Len(perm.gates)
    /\ \E v \in DOMAIN perm.variable_map : Len(SlotsOf(v)) >= 3

\* The coset constant of a wire, as the sigma encoding is specified.
CosetOf(w) ==
    CASE w = "Left" -> 1
      [] w = "Right" -> 7
      [] w = "Output" -> 13
      [] w = "Fourth" -> 17

\* w^i for the generator w of the domain in use
RootPower(i) == FPow(FPow(GENERATOR, (P - 1) \div pout.size), i)

\* C9: compute_permutation_lagrange maps the slot (wire, i) to k_wire * w^i
\* with k = (1, K1, K2, K3) for (Left, Right, Output, Fourth).
C9_LagrangeEncoding ==
    SigmasComputed =>
        \A t \in 1 .. 4 : \A j \in 1 .. pout.n :
            LET slot == pout.sigmas[WireOrder[t]][j]
            IN  pout.lagrange[t][j] =
                    (CosetOf(slot.wire) * RootPower(slot.index)) % P

\* An encoding was computed in which a Left slot maps to a Fourth slot and
\* a Right slot maps to an Output slot of a later row.
C9_Witness ==
    /\ pout.stage = "sigma"
    /\ \E j \in 1 .. pout.n : pout.sigmas["Left"][j].wire = "Fourth"
    /\ \E j \in 1 .. pout.n :
          /\ pout.sigmas["Right"][j].wire = "Output"
          /\ pout.sigmas["Right"][j].index >= 1

\* Z[j]: the evaluation of the returned polynomial at w^(j-1)
ZEval(j) == evaluate(pout.z_poly, RootPower(j - 1))

\* N_j: the numerator factors of row j (1-based)
NumeratorOfRow(j) ==
    ProdTo([t \in 1 .. 4 |->
               (pout.wires[t][j]
                + pout.beta * CosetOf(WireOrder[t]) * RootPower(j - 1)
                + pout.gamma) % P], 4)

\* D_j: the denominator factors of row j (1-based)
DenominatorOfRow(j) ==
    ProdTo([t \in 1 .. 4 |->
               (pout.wires[t][j] + pout.beta * pout.lagrange[t][j] + pout.gamma) % P],
           4)

\* C8: for wire values that respect the copy constraints and non-zero
\* factors, the grand product satisfies Z[0] = 1, Z[j+1] * D_j = Z[j] * N_j
\* for every row j, and wraps around to Z[n] = Z[0] = 1.
C8_GrandProduct ==
    pout.stage = "z" =>
        /\ ZEval(1) = 1
        /\ \A j \in 1 .. pout.size :
              (ZEval((j % pout.size) + 1) * DenominatorOfRow(j)) % P
                  = (ZEval(j) * NumeratorOfRow(j)) % P
        /\ \A j \in 1 .. pout.size : DenominatorOfRow(j) # 0

\* A grand product over four rows with a variable shared between rows, a
\* non-zero beta, and a z that is not the constant one.
C8_Witness ==
    /\ pout.stage = "z"
    /\ pout.size = 4
    /\ pout.beta # 0
    /\ Len(pout.z_poly) > 1
    /\ \E j \in 1 .. 4 : pout.sigmas["Left"][j].index # j - 1

(***************************************************************************)
(* DensePolynomial arithmetic of the proof system.                         *)
(***************************************************************************)
MaxOf(x, y) == IF x > y THEN x ELSE y

\* p1 + p2
PolyAdd(p1, p2) ==
    Bind(p1, LAMBDA left :
    Bind(p2, LAMBDA right :
        from_coefficients_vec(
            collect([i \in 1 .. MaxOf(Len(left), Len(right)) |->
                        FAdd(At0(left, i), At0(right, i))]))))

\* k * p1
PolyScale(p1, k) ==
    Bind(p1, LAMBDA given :
    Bind(k, LAMBDA factor :
        from_coefficients_vec(
            collect([i \in 1 .. Len(given) |-> FMul(factor, given[i])]))))

\* p1 - e for a constant e
PolySubConst(p1, e) ==
    Bind(p1, LAMBDA given :
        from_coefficients_vec(
            collect([i \in 1 .. MaxOf(Len(given), 1) |->
                        IF i = 1 THEN FSub(At0(given, 1), e) ELSE given[i]])))

\* (X - z) * w
PolyMulLinear(w, z) ==
    Bind(w, LAMBDA given :
        from_coefficients_vec(
            collect([i \in 1 .. Len(given) + 1 |->
                        FSub(IF i > 1 THEN given[i - 1] ELSE 0,
                             FMul(z, At0(given, i)))])))

\* DensePolynomial::degree
PolyDegree(p1) ==
    Bind(from_coefficients_vec(p1), LAMBDA trimmed :
        IF Len(trimmed) = 0 THEN 0 ELSE Len(trimmed) - 1)

\* The coefficients k, k+1, ... of the quotient of p1 - p1(z) by X - z
DivLinearFrom(p1, z, k) ==
    Bind(p1, LAMBDA given :
    Bind(z, LAMBDA point :
        LET divided[rest \in Seq(Nat), j \in Nat] ==
                IF j < k THEN rest
                ELSE divided[<<FAdd(given[j + 1],
                                    FMul(point,
                                         IF Len(rest) = 0 THEN 0 ELSE rest[1]))>>
                             \o rest,
                             j - 1]
        IN  IF k >= Len(given) THEN <<>> ELSE divided[<<>>, Len(given) - 1]))

\* domain_4n.coset_fft: the evaluations at g, g w, g w^2, ... of the domain
coset_fft(p1, size4) ==
    Bind(p1, LAMBDA given :
        collect([i \in 1 .. size4 |->
                    evaluate(given, FMul(GENERATOR, DomainElements(size4)[i]))]))

\* domain_4n.coset_ifft: the polynomial with the given evaluations on the coset
coset_ifft(evals, size4) ==
    Bind(ifft(evals, size4), LAMBDA plain :
        collect([j \in 1 .. size4 |->
                    FMul(plain[j], FPow(FInv(GENERATOR), j - 1))]))

\* util::linear_combination: sum of challenge^i * x_i, on scalars
LinearCombinationEval(evals, challenge, k) ==
    Bind(evals, LAMBDA given :
    Bind(challenge, LAMBDA factor :
        LET combined[acc \in Nat, j \in Nat] ==
                IF j < k THEN acc
                ELSE combined[FAdd(given[j], FMul(factor, acc)), j - 1]
        IN  combined[0, Len(given)]))

\* util::linear_combination: sum of challenge^i * C_i, on commitments
LinearCombinationComm(comms, challenge, k) ==
    Bind(comms, LAMBDA given :
    Bind(challenge, LAMBDA factor :
        LET combined[acc \in Seq(Nat), j \in Nat] ==
                IF j < k THEN acc
                ELSE combined[PolyAdd(given[j], PolyScale(acc, factor)), j - 1]
        IN  combined[<<>>, Len(given)]))

linear_combination(evals, comms, challenge) ==
    [commitment |-> LinearCombinationComm(comms, challenge, 1),
     eval |-> LinearCombinationEval(evals, challenge, 1)]

(***************************************************************************)
(* The commitment scheme (ark_poly_commit KZG10 / SonicKZG10), by its      *)
(* contract: a commitment binds its polynomial, so it is represented by    *)
(* the polynomial in normal form; an opening of C at z to e with witness w *)
(* checks exactly when C - e = (X - z) w.                                  *)
(***************************************************************************)
\* SonicKZG10::trim(u_params, supported_degree, 0, None)
trim(u_params, supported_degree) ==
    IF supported_degree > u_params.max_degree
    THEN [ok |-> FALSE, supported_degree |-> 0]
    ELSE [ok |-> TRUE, supported_degree |-> supported_degree]

\* KZG10::commit(powers, polynomial, None, None)
commit(powers, p1) ==
    Bind(from_coefficients_vec(p1), LAMBDA trimmed :
        IF PolyDegree(trimmed) > powers.supported_degree
        THEN [ok |-> FALSE, comm |-> <<>>]
        ELSE [ok |-> TRUE, comm |-> trimmed])

\* KZG10::open: the witness polynomial of p1 at z
kzg_open(p1, z) == from_coefficients_vec(DivLinearFrom(p1, z, 1))

\* One opening checks
OpeningHolds(comm, z, e, w) == PolySubConst(comm, e) = PolyMulLinear(w, z)

\* KZG10::batch_check: "true" / "false", or "err" when the scheme fails
batch_check(comms, points, values, proofs, pc_fault) ==
    IF pc_fault THEN "err"
    ELSE Bind(comms, LAMBDA given :
         IF \A i \in 1 .. Len(given) :
                OpeningHolds(given[i], points[i], values[i], proofs[i])
         THEN "true"
         ELSE "false")

(***************************************************************************)
(* The transcript (src/transcript.rs over merlin::Transcript).  The state  *)
(* of the Merlin transcript is a number that every operation mixes its     *)
(* label and data into.                                                    *)
(***************************************************************************)
TranscriptLabels ==
    << "Test", "Other", "CircuitCompilation",
       "w_l", "w_r", "w_o", "w_4", "beta", "gamma", "z", "alpha",
       "range separation challenge", "logic separation challenge",
       "fixed base separation challenge", "variable base separation challenge",
       "t_1", "t_2", "t_3", "t_4",
       "a_eval", "b_eval", "c_eval", "d_eval",
       "a_next_eval", "b_next_eval", "d_next_eval",
       "left_sig_eval", "right_sig_eval", "out_sig_eval",
       "q_arith_eval", "q_c_eval", "q_l_eval", "q_r_eval",
       "perm_eval", "t_eval", "r_eval", "aggregate_witness", "w_z", "w_z_w",
       "dom-sep", "circuit_size", "n",
       "q_m", "q_l", "q_r", "q_o", "q_4", "q_c", "q_arith", "q_range", "q_logic",
       "q_fixed_group_add", "q_variable_group_add",
       "left_sigma", "right_sigma", "out_sigma", "fourth_sigma" >>

LabelCode(lbl) ==
    CHOOSE i \in 1 .. Len(TranscriptLabels) : TranscriptLabels[i] = lbl

\* Size of the state space of the transcript
MERLIN_STATES == 9973

\* One absorption step of the transcript's sponge
Mix(st, x) == ((st * 31) + x + 17) % MERLIN_STATES

\* The state after absorbing the entries of data from the k-th on
MixAll(st, data, k) ==
    Bind(data, LAMBDA given :
        LET absorbed[state \in Nat, j \in Nat] ==
                IF j > Len(given) THEN state
                ELSE absorbed[Mix(state, given[j]), j + 1]
        IN  absorbed[st, k])

\* A transcript is the state of its sponge and, for the properties of the
\* protocol's order, the list of the operations made on it: <<"append",
\* label>> or <<"challenge", label>>.
TranscriptRecords == [st : Nat, log : Seq(Seq(STRING))]

\* TranscriptWrapper::new(label)
TranscriptNew(lbl) == [st |-> Mix(0, LabelCode(lbl)), log |-> <<>>]

\* Transcript::append_message(label, bytes)
append_message(tr, lbl, data) ==
    [st |-> MixAll(Mix(tr.st, LabelCode(lbl)), data, 1),
     log |-> Append(tr.log, <<"append", lbl>>)]

\* append_commitment: the serialised commitment is appended
append_commitment(tr, lbl, comm) ==
    append_message(tr, lbl, <<Len(comm)>> \o comm)

\* append_scalar: the serialised scalar is appended
append_scalar(tr, lbl, s) == append_message(tr, lbl, <<s>>)

\* The values challenge_scalar can return: size_in_bits() / 8 whole bytes
\* hold fewer bits than the modulus, so from_random_bytes always yields a
\* field element; scaled to F, one bit less than MODULUS_BITS.
ChallengeRange == Pow2(MODULUS_BITS - 1)

\* challenge_scalar(label): the challenge and the transcript after drawing it
challenge_scalar(tr, lbl) ==
    Bind(Mix(Mix(tr.st, LabelCode(lbl)), 1), LAMBDA drawn :
        [value |-> ((drawn * 7) + (drawn \div 64)) % ChallengeRange,
         tr |-> [st |-> drawn, log |-> Append(tr.log, <<"challenge", lbl>>)]])

(***************************************************************************)
(* Preprocessing (src/proof_system/preprocess.rs).                         *)
(***************************************************************************)
\* The result of an entry point or of one of its steps: a tagged outcome
\* ("Ok", an Error variant, or "panic") and, for a panic, what caused it.
Outcome(res, why) == [result |-> res, cause |-> why]

\* StandardComposer::check_poly_same_len
check_poly_same_len(c) ==
    LET expected == Len(c.q_m)
    IN  /\ \A name \in SelectorNames : Len(c[name]) = expected
        /\ Len(c.w_l) = expected /\ Len(c.w_r) = expected
        /\ Len(c.w_o) = expected /\ Len(c.w_4) = expected

\* The names of the fifteen preprocessed polynomials
SigmaNames == <<"left_sigma", "right_sigma", "out_sigma", "fourth_sigma">>

PolyNames == SelectorNames \cup {SigmaNames[t] : t \in 1 .. 4}

\* The variables of the map in ascending order (one iteration order)
AscendingOrder(variable_map) ==
    [i \in 1 .. Cardinality(DOMAIN variable_map) |-> i - 1]

\* The variables of the map in descending order (another iteration order)
DescendingOrder(variable_map) ==
    [i \in 1 .. Cardinality(DOMAIN variable_map) |->
        Cardinality(DOMAIN variable_map) - i]

\* TranscriptProtocol::circuit_domain_sep(n)
circuit_domain_sep(tr, n) ==
    append_message(append_message(tr, "dom-sep", <<LabelCode("circuit_size")>>),
                   "n", <<n>>)

\* The fifteen commitments in the order of
\* VerifierKey::from_polynomial_commitments
CommitmentOrder ==
    <<"q_m", "q_l", "q_r", "q_o", "q_4", "q_c", "q_arith", "q_range", "q_logic",
      "q_fixed_group_add", "q_variable_group_add",
      "left_sigma", "right_sigma", "out_sigma", "fourth_sigma">>

\* VerifierKey::seed_transcript: the circuit size, then the commitments
seed_transcript(verifier_key, tr) ==
    LET seeded[state \in TranscriptRecords, j \in Nat] ==
            IF j > Len(CommitmentOrder) THEN state
            ELSE seeded[append_commitment(state, CommitmentOrder[j],
                                          verifier_key.comms[CommitmentOrder[j]]),
                        j + 1]
    IN  seeded[circuit_domain_sep(tr, verifier_key.n), 1]

\* A verifier key that records one row less than the padded circuit has
key_of_smaller_size(size, comms) == [n |-> size - 1, comms |-> comms]

\* VerifierKey::from_polynomial_commitments(self.circuit_size(), ...)
from_polynomial_commitments(size, comms) == [n |-> size, comms |-> comms]

\* StandardComposer::preprocess_shared(commit_key, transcript), the variable
\* map iterated in `order`: the outcome, the composer and the transcript as
\* the call leaves them and, when it returns Ok, the selector and sigma
\* polynomials and the verifier key of their commitments.
preprocess_shared(c, commit_key, transcript, order) ==
    IF ~DomainExists(circuit_size(c))
    THEN [out |-> Outcome("panic", "domain"), composer |-> c,
          transcript |-> transcript]
    ELSE IF ~check_poly_same_len(c)
    THEN [out |-> Outcome("MismatchedPolyLen", "none"), composer |-> c,
          transcript |-> transcript]
    ELSE
    Bind(DomainSize(circuit_size(c)), LAMBDA dsize :
    Bind(pad(c, dsize - c.n), LAMBDA padded :
    Bind(compute_sigma_polynomials(padded.perm, padded.n, dsize, order).polys,
         LAMBDA sigma_polys :
    Bind(collect_map(
             [name \in PolyNames |->
                 IF name \in SelectorNames
                 THEN from_coefficients_vec(ifft(padded[name], dsize))
                 ELSE sigma_polys[CHOOSE t \in 1 .. 4 : SigmaNames[t] = name]]),
         LAMBDA polys :
    Bind(collect_map([name \in PolyNames |-> commit(commit_key, polys[name])]),
         LAMBDA commits :
    IF \E name \in PolyNames : ~commits[name].ok
    THEN [out |-> Outcome("PCError", "none"), composer |-> padded,
          transcript |-> transcript]
    ELSE
    Bind(from_polynomial_commitments(
             circuit_size(padded),
             collect_map([name \in PolyNames |-> commits[name].comm])),
         LAMBDA verifier_key :
    [out |-> Outcome("Ok", "none"),
     composer |-> padded,
     transcript |-> seed_transcript(verifier_key, transcript),
     selectors |-> polys,
     verifier_key |-> verifier_key]))))))

\* StandardComposer::preprocess_prover; commitments are the ones computed
\* for the seeding, which the prover key does not keep
preprocess_prover(c, commit_key, transcript, order) ==
    Bind(preprocess_shared(c, commit_key, transcript, order), LAMBDA shared :
        IF shared.out.result # "Ok" THEN shared
        ELSE IF ~DomainExists(4 * shared.verifier_key.n)
        THEN [out |-> Outcome("panic", "domain"), composer |-> shared.composer,
              transcript |-> shared.transcript]
        ELSE [out |-> Outcome("Ok", "none"),
              composer |-> shared.composer,
              transcript |-> shared.transcript,
              commitments |-> shared.verifier_key.comms,
              prover_key |-> [n |-> shared.verifier_key.n,
                              polys |-> shared.selectors]])

\* A verifier preprocessing that leaves the transcript as it was given
preprocess_verifier_unseeded(c, commit_key, transcript, order) ==
    Bind(preprocess_shared(c, commit_key, transcript, order), LAMBDA shared :
        IF shared.out.result # "Ok" THEN shared
        ELSE [out |-> Outcome("Ok", "none"), composer |-> shared.composer,
              transcript |-> transcript,
              verifier_key |-> shared.verifier_key])

\* StandardComposer::preprocess_verifier
preprocess_verifier(c, commit_key, transcript, order) ==
    Bind(preprocess_shared(c, commit_key, transcript, order), LAMBDA shared :
        IF shared.out.result # "Ok" THEN shared
        ELSE [out |-> Outcome("Ok", "none"), composer |-> shared.composer,
              transcript |-> shared.transcript,
              verifier_key |-> shared.verifier_key])

(***************************************************************************)
(* The circuit of the tests of src/circuit.rs (TestCircuit), with its      *)
(* first constraint a + b = c, c a public input, and optionally its range  *)
(* constraints on a and b.                                                 *)
(***************************************************************************)
\* composer.add((q_l, a), (q_r, b), q_c, pi): a row q_l a + q_r b - o + q_c
\* + PI = 0 whose output is a fresh variable holding the value that
\* satisfies it.
add(c, q_l_a, q_r_b, q_c, pi) ==
    Bind(add_input(c, FAdd(FAdd(FAdd(FMul(q_l_a[1], ValueOf(c, q_l_a[2])),
                                     FMul(q_r_b[1], ValueOf(c, q_r_b[2]))),
                                q_c),
                           IF pi = <<>> THEN 0 ELSE pi[1])),
         LAMBDA with_out :
        big_add_gate(with_out, q_l_a[2], q_r_b[2], NewVarIndex(c.perm), <<>>,
                     q_l_a[1], q_r_b[1], FNeg(1), 0, q_c, pi))

\* Bits of the range constraints on a and on b (1 << 6 and 1 << 5 in the
\* source), scaled to REPR_BITS
RangeBitsA == 8

RangeBitsB == 6

\* TestCircuit::default()
DefaultWitness == [a |-> 0, b |-> 0, c |-> 0]

\* TestCircuit::gadget(composer) for the witness w of a circuit
gadget(c, circuit, w) ==
    Bind(add_input(c, w.a), LAMBDA with_a :
    Bind(add_input(with_a, w.b), LAMBDA with_b :
    Bind(add(with_b, <<1, NewVarIndex(c.perm)>>, <<1, NewVarIndex(with_a.perm)>>,
             0, <<FNeg(w.c)>>),
         LAMBDA with_sum :
    Bind(assert_equal(with_sum, NewVarIndex(with_b.perm), with_sum.zero_var),
         LAMBDA with_equal :
    IF ~circuit.ranges
    THEN [out |-> Outcome("Ok", "none"), composer |-> with_equal] ELSE
    Bind(range_gate(with_equal, NewVarIndex(c.perm), RangeBitsA),
         LAMBDA ranged_a :
    IF ranged_a.panicked
    THEN [out |-> Outcome("panic", "gadget"), composer |-> with_equal] ELSE
    Bind(range_gate(ranged_a.c, NewVarIndex(with_a.perm), RangeBitsB),
         LAMBDA ranged_b :
    IF ranged_b.panicked
    THEN [out |-> Outcome("panic", "gadget"), composer |-> with_equal]
    ELSE [out |-> Outcome("Ok", "none"), composer |-> ranged_b.c]))))))

\* composer.pi_positions(): the rows that hold a public input
pi_positions(c) == [k \in 1 .. Len(c.public_inputs) |-> c.public_inputs[k].pos]

\* Circuit::compile(u_params)
compile(circuit, u_params) ==
    Bind(trim(u_params, circuit.padded_circuit_size), LAMBDA trimmed :
    IF ~trimmed.ok THEN [out |-> Outcome("panic", "trim")] ELSE
    Bind(gadget(NewComposer, circuit, DefaultWitness), LAMBDA filled :
    IF filled.out.result # "Ok" THEN [out |-> filled.out] ELSE
    Bind(preprocess_prover(filled.composer, trimmed,
                           TranscriptNew("CircuitCompilation"),
                           AscendingOrder(filled.composer.perm)),
         LAMBDA prover_side :
    IF prover_side.out.result # "Ok" THEN [out |-> prover_side.out] ELSE
    Bind(preprocess_verifier(filled.composer, trimmed,
                             TranscriptNew("CircuitCompilation"),
                             AscendingOrder(filled.composer.perm)),
         LAMBDA verifier_side :
    IF verifier_side.out.result # "Ok" THEN [out |-> verifier_side.out]
    ELSE [out |-> Outcome("Ok", "none"),
          prover_key |-> prover_side.prover_key,
          verifier_data |-> [key |-> verifier_side.verifier_key,
                             pi_pos |-> collect(pi_positions(filled.composer))]]))))

(***************************************************************************)
(* The gate identities as the proof system evaluates them.  An evaluation  *)
(* record ev holds the values at one point of the wire polynomials (a, b,  *)
(* c, d), of z there and at the next root (z, z_next), of the arithmetic   *)
(* selectors, of the four sigmas, of the public-input polynomial (pi) and  *)
(* of the first Lagrange polynomial (l1).  The circuits that reach the     *)
(* prover have q_range, q_logic, q_fixed_group_add and                     *)
(* q_variable_group_add zero everywhere: the four custom-gate terms, each  *)
(* a multiple of its selector, are zero and are left out.                  *)
(***************************************************************************)
\* q_arith (a b q_m + a q_l + b q_r + c q_o + d q_4 + q_c)
ArithmeticIdentity(ev) ==
    FMul(ev.q_arith,
         FAdd(FAdd(FAdd(FMul(FMul(ev.a, ev.b), ev.q_m), FMul(ev.a, ev.q_l)),
                   FAdd(FMul(ev.b, ev.q_r), FMul(ev.c, ev.q_o))),
              FAdd(FMul(ev.d, ev.q_4), ev.q_c)))

\* (a + beta x + gamma)(b + beta k1 x + gamma)(c + beta k2 x + gamma)
\* (d + beta k3 x + gamma)
IdentityProduct(wa, wb, wc, wd, x, be, ga) ==
    FMul(FMul(numerator_irreducible(x, wa, 1, be, ga),
              numerator_irreducible(x, wb, K1, be, ga)),
         FMul(numerator_irreducible(x, wc, K2, be, ga),
              numerator_irreducible(x, wd, K3, be, ga)))

\* (a + beta s1 + gamma)(b + beta s2 + gamma)(c + beta s3 + gamma)
CopyProduct(wa, wb, wc, s1, s2, s3, be, ga) ==
    FMul(FMul(FAdd(FAdd(wa, FMul(be, s1)), ga), FAdd(FAdd(wb, FMul(be, s2)), ga)),
         FAdd(FAdd(wc, FMul(be, s3)), ga))

\* z(x) prod(w + beta k x + gamma) - z(w x) prod(w + beta sigma + gamma)
PermutationIdentity(ev, x, be, ga) ==
    FSub(FMul(ev.z, IdentityProduct(ev.a, ev.b, ev.c, ev.d, x, be, ga)),
         FMul(ev.z_next,
              FMul(CopyProduct(ev.a, ev.b, ev.c, ev.s1, ev.s2, ev.s3, be, ga),
                   FAdd(FAdd(ev.d, FMul(be, ev.s4)), ga))))

\* (z(x) - 1) L1(x)
InitZIdentity(ev) == FMul(FSub(ev.z, 1), ev.l1)

\* The numerator of the quotient at x
QuotientNumerator(ev, x, al, be, ga) ==
    FAdd(FAdd(ArithmeticIdentity(ev), ev.pi),
         FAdd(FMul(al, PermutationIdentity(ev, x, be, ga)),
              FMul(FMul(al, al), InitZIdentity(ev))))

\* The arithmetic block of the linearisation: the selector items (polynomials
\* for the prover, commitments for the verifier) weighted by the evaluations
ArithmeticLinearisation(items, evs) ==
    PolyScale(
        PolyAdd(PolyAdd(PolyAdd(PolyScale(items.q_m, FMul(evs.a_eval, evs.b_eval)),
                                PolyScale(items.q_l, evs.a_eval)),
                        PolyAdd(PolyScale(items.q_r, evs.b_eval),
                                PolyScale(items.q_o, evs.c_eval))),
                PolyAdd(PolyScale(items.q_4, evs.d_eval), items.q_c)),
        evs.q_arith_eval)

\* The permutation block of the linearisation:
\*   (a + beta z + gamma) ... (d + beta k3 z + gamma) alpha [z]
\*   - (a + beta s1 + gamma)(b + beta s2 + gamma)(c + beta s3 + gamma)
\*     alpha beta z(z w) [s4]
\*   + L1(z) alpha^2 [z]
PermutationLinearisation(z_item, s4_item, evs, zc, al, be, ga, l1) ==
    LET identity_scalar ==
            FMul(IdentityProduct(evs.a_eval, evs.b_eval, evs.c_eval, evs.d_eval,
                                 zc, be, ga),
                 al)
        copy_scalar ==
            FMul(FMul(CopyProduct(evs.a_eval, evs.b_eval, evs.c_eval,
                                  evs.left_sigma_eval, evs.right_sigma_eval,
                                  evs.out_sigma_eval, be, ga),
                      FMul(al, be)),
                 evs.permutation_eval)
        init_scalar == FMul(l1, FMul(al, al))
    IN  PolyAdd(PolyScale(z_item, FAdd(identity_scalar, init_scalar)),
                PolyScale(s4_item, FNeg(copy_scalar)))

\* Proof::compute_quotient_commitment: t_1 + z^n t_2 + z^2n t_3 + z^3n t_4
compute_quotient_commitment(pf, zc, sz) ==
    PolyAdd(PolyAdd(pf.t_1_comm, PolyScale(pf.t_2_comm, FPow(zc, sz))),
            PolyAdd(PolyScale(pf.t_3_comm, FPow(zc, 2 * sz)),
                    PolyScale(pf.t_4_comm, FPow(zc, 3 * sz))))

(***************************************************************************)
(* The prover (Prover::prove), rounds R1 to R5.  Blinding scalars are      *)
(* taken as zero.                                                          *)
(***************************************************************************)
WireColumns == <<"w_l", "w_r", "w_o", "w_4">>

\* The values of a wire column, padded with the zero variable to the domain
WireValues(c, col, sz) ==
    collect([i \in 1 .. sz |->
                IF i <= Len(c[col]) THEN ValueOf(c, c[col][i]) ELSE 0])

\* The dense public-input vector of the composer
PublicInputVector(c, sz) ==
    collect([i \in 1 .. sz |-> PublicInputAt(c, i, Len(c.public_inputs))])

\* A first round that does not append beta before drawing gamma
WireRoundWithoutBeta(tr, cm) ==
    Bind(challenge_scalar(
             append_commitment(
                 append_commitment(
                     append_commitment(append_commitment(tr, "w_l", cm[1]),
                                       "w_r", cm[2]),
                     "w_o", cm[3]),
                 "w_4", cm[4]),
             "beta"),
         LAMBDA beta_draw :
    Bind(challenge_scalar(beta_draw.tr, "gamma"), LAMBDA gamma_draw :
    [beta |-> beta_draw.value, gamma |-> gamma_draw.value, tr |-> gamma_draw.tr]))

\* The first challenges of the protocol: beta, gamma (after the wire
\* commitments), then alpha and the four separators (after z)
WireRound(tr, cm) ==
    Bind(challenge_scalar(
             append_commitment(
                 append_commitment(
                     append_commitment(append_commitment(tr, "w_l", cm[1]),
                                       "w_r", cm[2]),
                     "w_o", cm[3]),
                 "w_4", cm[4]),
             "beta"),
         LAMBDA beta_draw :
    Bind(challenge_scalar(append_scalar(beta_draw.tr, "beta", beta_draw.value),
                          "gamma"),
         LAMBDA gamma_draw :
    [beta |-> beta_draw.value, gamma |-> gamma_draw.value, tr |-> gamma_draw.tr]))

PermutationRound(tr, z_cm) ==
    Bind(challenge_scalar(append_commitment(tr, "z", z_cm), "alpha"),
         LAMBDA alpha_draw :
    Bind(challenge_scalar(alpha_draw.tr, "range separation challenge"),
         LAMBDA range_draw :
    Bind(challenge_scalar(range_draw.tr, "logic separation challenge"),
         LAMBDA logic_draw :
    Bind(challenge_scalar(logic_draw.tr, "fixed base separation challenge"),
         LAMBDA fixed_draw :
    Bind(challenge_scalar(fixed_draw.tr, "variable base separation challenge"),
         LAMBDA var_draw :
    [alpha |-> alpha_draw.value,
     range_sep_challenge |-> range_draw.value,
     logic_sep_challenge |-> logic_draw.value,
     fixed_base_sep_challenge |-> fixed_draw.value,
     var_base_sep_challenge |-> var_draw.value,
     tr |-> var_draw.tr])))))

\* A third round that draws the evaluation challenge before the quotient
\* commitments are appended
QuotientRoundDrawingFirst(tr, t_cm) ==
    Bind(challenge_scalar(tr, "z"), LAMBDA z_draw :
    [z_challenge |-> z_draw.value,
     tr |-> append_commitment(
                append_commitment(
                    append_commitment(append_commitment(z_draw.tr, "t_1", t_cm[1]),
                                      "t_2", t_cm[2]),
                    "t_3", t_cm[3]),
                "t_4", t_cm[4])])

\* The evaluation challenge, after the quotient commitments
QuotientRound(tr, t_cm) ==
    Bind(challenge_scalar(
             append_commitment(
                 append_commitment(
                     append_commitment(append_commitment(tr, "t_1", t_cm[1]),
                                       "t_2", t_cm[2]),
                     "t_3", t_cm[3]),
                 "t_4", t_cm[4]),
             "z"),
         LAMBDA z_draw :
    [z_challenge |-> z_draw.value, tr |-> z_draw.tr])

\* The evaluations are absorbed in this order, t_eval between perm_eval and
\* r_eval
EvaluationLabels ==
    << <<"a_eval", "a_eval">>, <<"b_eval", "b_eval">>, <<"c_eval", "c_eval">>,
       <<"d_eval", "d_eval">>, <<"a_next_eval", "a_next_eval">>,
       <<"b_next_eval", "b_next_eval">>, <<"d_next_eval", "d_next_eval">>,
       <<"left_sig_eval", "left_sigma_eval">>,
       <<"right_sig_eval", "right_sigma_eval">>,
       <<"out_sig_eval", "out_sigma_eval">>, <<"q_arith_eval", "q_arith_eval">>,
       <<"q_c_eval", "q_c_eval">>, <<"q_l_eval", "q_l_eval">>,
       <<"q_r_eval", "q_r_eval">>, <<"perm_eval", "permutation_eval">>,
       <<"t_eval", "t_eval">>, <<"r_eval", "linearisation_polynomial_eval">> >>

\* The transcript after appending the evaluations from the k-th on
AppendEvaluations(tr, vals, k) ==
    Bind(vals, LAMBDA given :
        LET appended[state \in TranscriptRecords, j \in Nat] ==
                IF j > Len(EvaluationLabels) THEN state
                ELSE appended[append_scalar(state, EvaluationLabels[j][1],
                                            given[EvaluationLabels[j][2]]),
                              j + 1]
        IN  appended[tr, k])

EvaluationRound(tr, evs, t_ev) ==
    AppendEvaluations(tr, evs @@ ("t_eval" :> t_ev), 1)

\* The quotient polynomial: the numerator over X^n - 1 on the 4n coset,
\* interpolated back
QuotientPoly(pp, wp, zp, pip, sz, al, be, ga) ==
    Bind(collect([i \in 1 .. 4 * sz |->
                     FMul(GENERATOR, DomainElements(4 * sz)[i])]),
         LAMBDA coset_points :
    Bind(ifft([i \in 1 .. sz |-> IF i = 1 THEN 1 ELSE 0], sz), LAMBDA l1_poly :
    Bind(coset_fft(zp, 4 * sz), LAMBDA z_coset :
    Bind(collect([i \in 1 .. 4 * sz |->
             [a |-> evaluate(wp[1], coset_points[i]),
              b |-> evaluate(wp[2], coset_points[i]),
              c |-> evaluate(wp[3], coset_points[i]),
              d |-> evaluate(wp[4], coset_points[i]),
              z |-> z_coset[i],
              z_next |-> z_coset[((i + 3) % (4 * sz)) + 1],
              q_m |-> evaluate(pp.q_m, coset_points[i]),
              q_l |-> evaluate(pp.q_l, coset_points[i]),
              q_r |-> evaluate(pp.q_r, coset_points[i]),
              q_o |-> evaluate(pp.q_o, coset_points[i]),
              q_4 |-> evaluate(pp.q_4, coset_points[i]),
              q_c |-> evaluate(pp.q_c, coset_points[i]),
              q_arith |-> evaluate(pp.q_arith, coset_points[i]),
              s1 |-> evaluate(pp.left_sigma, coset_points[i]),
              s2 |-> evaluate(pp.right_sigma, coset_points[i]),
              s3 |-> evaluate(pp.out_sigma, coset_points[i]),
              s4 |-> evaluate(pp.fourth_sigma, coset_points[i]),
              pi |-> evaluate(pip, coset_points[i]),
              l1 |-> evaluate(l1_poly, coset_points[i])]]),
         LAMBDA row_evals :
    coset_ifft(
        collect([i \in 1 .. 4 * sz |->
                    FMul(QuotientNumerator(row_evals[i], coset_points[i],
                                           al, be, ga),
                         FInv(FSub(FPow(coset_points[i], sz), 1)))]),
        4 * sz)))))

\* Round 1 of Prover::prove: the wire polynomials, their commitments and
\* the challenges beta and gamma
ProverWires(c, powers, lbl, domain_size) ==
    Bind(collect([col \in 1 .. 4 |-> WireValues(c, WireColumns[col], domain_size)]),
         LAMBDA wire_values :
    Bind(collect([wire \in 1 .. 4 |->
                     from_coefficients_vec(ifft(wire_values[wire], domain_size))]),
         LAMBDA wire_polys :
    Bind(collect([cw \in 1 .. 4 |-> commit(powers, wire_polys[cw])]),
         LAMBDA wire_commits :
    Bind(WireRound(TranscriptNew(lbl),
                   <<wire_commits[1].comm, wire_commits[2].comm,
                     wire_commits[3].comm, wire_commits[4].comm>>),
         LAMBDA round1 :
    [ok |-> \A cw \in 1 .. 4 : wire_commits[cw].ok,
     values |-> wire_values,
     polys |-> wire_polys,
     comms |-> <<wire_commits[1].comm, wire_commits[2].comm,
                 wire_commits[3].comm, wire_commits[4].comm>>,
     beta |-> round1.beta,
     gamma |-> round1.gamma,
     tr |-> round1.tr]))))

\* Round 2: the permutation polynomial z, its commitment and the challenge
\* alpha
ProverPermutation(pk, powers, domain_size, wires) ==
    Bind(compute_permutation_poly(
             domain_size, wires.values, wires.beta, wires.gamma,
             <<pk.polys.left_sigma, pk.polys.right_sigma,
               pk.polys.out_sigma, pk.polys.fourth_sigma>>),
         LAMBDA grand_product :
    IF grand_product.panicked THEN [panicked |-> TRUE] ELSE
    Bind(commit(powers, grand_product.z_poly), LAMBDA z_commit :
    Bind(PermutationRound(wires.tr, z_commit.comm), LAMBDA round2 :
    [panicked |-> FALSE,
     ok |-> z_commit.ok,
     z_poly |-> grand_product.z_poly,
     z_comm |-> z_commit.comm,
     alpha |-> round2.alpha,
     tr |-> round2.tr])))

\* Round 3: the quotient polynomial in four pieces, their commitments and
\* the evaluation challenge
ProverQuotient(c, pk, powers, domain_size, wires, permutation) ==
    Bind(QuotientPoly(pk.polys, wires.polys, permutation.z_poly,
                      from_coefficients_vec(
                          ifft(PublicInputVector(c, domain_size), domain_size)),
                      domain_size, permutation.alpha, wires.beta, wires.gamma),
         LAMBDA quotient :
    Bind(collect([piece \in 1 .. 4 |->
                     from_coefficients_vec(
                         SubSeq(quotient, ((piece - 1) * domain_size) + 1,
                                piece * domain_size))]),
         LAMBDA t_polys :
    Bind(collect([ct \in 1 .. 4 |-> commit(powers, t_polys[ct])]),
         LAMBDA t_commits :
    Bind(QuotientRound(permutation.tr,
                       <<t_commits[1].comm, t_commits[2].comm,
                         t_commits[3].comm, t_commits[4].comm>>),
         LAMBDA round3 :
    [ok |-> \A ct \in 1 .. 4 : t_commits[ct].ok,
     polys |-> t_polys,
     comms |-> <<t_commits[1].comm, t_commits[2].comm,
                 t_commits[3].comm, t_commits[4].comm>>,
     z_challenge |-> round3.z_challenge,
     tr |-> round3.tr]))))

\* Round 4: the evaluations at the challenge and at its shift, and the
\* linearisation polynomial
ProverEvaluations(pk, domain_size, wires, permutation, quotient) ==
    Bind(FMul(quotient.z_challenge, group_gen(domain_size)), LAMBDA shifted :
    Bind([a_eval |-> evaluate(wires.polys[1], quotient.z_challenge),
          b_eval |-> evaluate(wires.polys[2], quotient.z_challenge),
          c_eval |-> evaluate(wires.polys[3], quotient.z_challenge),
          d_eval |-> evaluate(wires.polys[4], quotient.z_challenge),
          a_next_eval |-> evaluate(wires.polys[1], shifted),
          b_next_eval |-> evaluate(wires.polys[2], shifted),
          d_next_eval |-> evaluate(wires.polys[4], shifted),
          left_sigma_eval |-> evaluate(pk.polys.left_sigma, quotient.z_challenge),
          right_sigma_eval |-> evaluate(pk.polys.right_sigma, quotient.z_challenge),
          out_sigma_eval |-> evaluate(pk.polys.out_sigma, quotient.z_challenge),
          q_arith_eval |-> evaluate(pk.polys.q_arith, quotient.z_challenge),
          q_c_eval |-> evaluate(pk.polys.q_c, quotient.z_challenge),
          q_l_eval |-> evaluate(pk.polys.q_l, quotient.z_challenge),
          q_r_eval |-> evaluate(pk.polys.q_r, quotient.z_challenge),
          permutation_eval |-> evaluate(permutation.z_poly, shifted)],
         LAMBDA partial :
    Bind(PolyAdd(ArithmeticLinearisation(pk.polys, partial),
                 PermutationLinearisation(
                     permutation.z_poly, pk.polys.fourth_sigma, partial,
                     quotient.z_challenge, permutation.alpha, wires.beta,
                     wires.gamma,
                     evaluate(ifft([row \in 1 .. domain_size |->
                                       IF row = 1 THEN 1 ELSE 0],
                                   domain_size),
                              quotient.z_challenge))),
         LAMBDA lin_poly :
    Bind(partial @@ ("linearisation_polynomial_eval" :>
                         evaluate(lin_poly, quotient.z_challenge)),
         LAMBDA proof_evals :
    Bind(compute_quotient_commitment(
             [t_1_comm |-> quotient.polys[1], t_2_comm |-> quotient.polys[2],
              t_3_comm |-> quotient.polys[3], t_4_comm |-> quotient.polys[4]],
             quotient.z_challenge, domain_size),
         LAMBDA t_combined :
    [evaluations |-> proof_evals,
     lin_poly |-> lin_poly,
     t_poly |-> t_combined,
     shifted |-> shifted,
     tr |-> EvaluationRound(quotient.tr, proof_evals,
                            evaluate(t_combined, quotient.z_challenge))])))))

\* Round 5: the two aggregated opening witnesses, and the proof
ProverOpenings(pk, wires, permutation, quotient, evaluated) ==
    Bind(challenge_scalar(evaluated.tr, "aggregate_witness"), LAMBDA first_draw :
    Bind(challenge_scalar(first_draw.tr, "aggregate_witness"), LAMBDA second_draw :
    [out |-> Outcome("Ok", "none"),
     proof |-> [a_comm |-> wires.comms[1],
                b_comm |-> wires.comms[2],
                c_comm |-> wires.comms[3],
                d_comm |-> wires.comms[4],
                z_comm |-> permutation.z_comm,
                t_1_comm |-> quotient.comms[1],
                t_2_comm |-> quotient.comms[2],
                t_3_comm |-> quotient.comms[3],
                t_4_comm |-> quotient.comms[4],
                w_z_comm |->
                    kzg_open(LinearCombinationComm(
                                 <<evaluated.t_poly, evaluated.lin_poly,
                                   wires.polys[1], wires.polys[2], wires.polys[3],
                                   wires.polys[4], pk.polys.left_sigma,
                                   pk.polys.right_sigma, pk.polys.out_sigma>>,
                                 first_draw.value, 1),
                             quotient.z_challenge),
                w_zw_comm |->
                    kzg_open(LinearCombinationComm(
                                 <<permutation.z_poly, wires.polys[1],
                                   wires.polys[2], wires.polys[4]>>,
                                 second_draw.value, 1),
                             evaluated.shifted),
                evaluations |-> evaluated.evaluations]]))

\* Prover::prove(commit_key) on the composer c with the key pk of compile,
\* the transcript starting from the label lbl
prove(c, pk, powers, lbl) ==
    Bind(DomainSize(circuit_size(c)), LAMBDA domain_size :
    Bind(ProverWires(c, powers, lbl, domain_size), LAMBDA wires :
    IF ~wires.ok THEN [out |-> Outcome("PCError", "none")] ELSE
    Bind(ProverPermutation(pk, powers, domain_size, wires), LAMBDA permutation :
    IF permutation.panicked THEN [out |-> Outcome("panic", "permutation")]
    ELSE IF ~permutation.ok THEN [out |-> Outcome("PCError", "none")] ELSE
    Bind(ProverQuotient(c, pk, powers, domain_size, wires, permutation),
         LAMBDA quotient :
    IF ~quotient.ok THEN [out |-> Outcome("PCError", "none")] ELSE
    Bind(ProverEvaluations(pk, domain_size, wires, permutation, quotient),
         LAMBDA evaluated :
    ProverOpenings(pk, wires, permutation, quotient, evaluated))))))

(***************************************************************************)
(* The verifier (src/proof_system/proof.rs).                               *)
(***************************************************************************)
\* compute_first_lagrange_evaluation: z_h / (n (z - 1)); the inverse of
\* the denominator is unwrapped
compute_first_lagrange_evaluation(sz, z_h_eval, zc) ==
    LET denom == FMul(sz % P, FSub(zc, 1))
    IN  IF denom = 0 THEN [panicked |-> TRUE, value |-> 0]
        ELSE [panicked |-> FALSE, value |-> FMul(z_h_eval, FInv(denom))]

\* batch_inversion: zeros are left as they are
InverseOrZero(x) == IF x = 0 THEN 0 ELSE FInv(x)

\* compute_barycentric_eval: the value at point of the polynomial with the
\* given evaluations over the domain, from the non-zero evaluations only
compute_barycentric_eval(evaluations, point, sz) ==
    FMul(SumTo([i \in 1 .. Len(evaluations) |->
                   IF evaluations[i] = 0 THEN 0
                   ELSE FMul(InverseOrZero(
                                 FSub(FMul(FPow(FInv(group_gen(sz)), i - 1), point),
                                      1)),
                             evaluations[i])],
               Len(evaluations)),
         FMul(FSub(FPow(point, sz), 1), FInv(sz % P)))

\* Proof::compute_quotient_evaluation:
\*   (r + PI(z) - (a + beta s1 + gamma)(b + beta s2 + gamma)
\*    (c + beta s3 + gamma)(d + gamma) z_hat alpha - l1 alpha^2) / z_h,
\* the inverse of z_h unwrapped
compute_quotient_evaluation(evs, pub_inputs, sz, al, be, ga, zc, z_h_eval, l1, z_hat) ==
    Bind(compute_barycentric_eval(pub_inputs, zc, sz), LAMBDA pi_value :
        IF z_h_eval = 0
        THEN [panicked |-> TRUE, value |-> 0, pi_eval |-> pi_value]
        ELSE [panicked |-> FALSE,
              value |->
                  FMul(FSub(FSub(FAdd(evs.linearisation_polynomial_eval, pi_value),
                                 FMul(CopyProduct(evs.a_eval, evs.b_eval, evs.c_eval,
                                                  evs.left_sigma_eval,
                                                  evs.right_sigma_eval,
                                                  evs.out_sigma_eval, be, ga),
                                      FMul(FMul(FAdd(evs.d_eval, ga), z_hat), al))),
                            FMul(l1, FMul(al, al))),
                       FInv(z_h_eval)),
              pi_eval |-> pi_value])

\* Proof::compute_linearisation_commitment: the multi-scalar multiplication
\* of the arithmetic and permutation blocks (the range, logic, fixed-base
\* and curve-addition blocks multiply selector commitments that are the
\* commitment of zero)
compute_linearisation_commitment(pf, al, be, ga, zc, l1, pvk) ==
    PolyAdd(ArithmeticLinearisation(pvk.comms, pf.evaluations),
            PermutationLinearisation(pf.z_comm, pvk.comms.fourth_sigma,
                                     pf.evaluations, zc, al, be, ga, l1))

\* Proof::gen_aggregate_proof
gen_aggregate_proof(pf, t_eval, t_comm, r_comm, pvk, tr) ==
    Bind(challenge_scalar(tr, "aggregate_witness"), LAMBDA v_draw :
    Bind(linear_combination(
             <<t_eval, pf.evaluations.linearisation_polynomial_eval,
               pf.evaluations.a_eval, pf.evaluations.b_eval,
               pf.evaluations.c_eval, pf.evaluations.d_eval,
               pf.evaluations.left_sigma_eval, pf.evaluations.right_sigma_eval,
               pf.evaluations.out_sigma_eval>>,
             <<t_comm, r_comm, pf.a_comm, pf.b_comm, pf.c_comm, pf.d_comm,
               pvk.comms.left_sigma, pvk.comms.right_sigma,
               pvk.comms.out_sigma>>,
             v_draw.value),
         LAMBDA combined :
    [commitment |-> combined.commitment, eval |-> combined.eval,
     challenge |-> v_draw.value, tr |-> v_draw.tr]))

\* A shifted aggregation that draws its challenge and sums the openings
\* without weighting them by it
gen_shift_aggregate_proof_unweighted(pf, tr) ==
    Bind(challenge_scalar(tr, "aggregate_witness"), LAMBDA v_draw :
    Bind(linear_combination(
             <<pf.evaluations.permutation_eval, pf.evaluations.a_next_eval,
               pf.evaluations.b_next_eval, pf.evaluations.d_next_eval>>,
             <<pf.z_comm, pf.a_comm, pf.b_comm, pf.d_comm>>,
             1),
         LAMBDA combined :
    [commitment |-> combined.commitment, eval |-> combined.eval,
     challenge |-> v_draw.value, tr |-> v_draw.tr]))

\* Proof::gen_shift_aggregate_proof
gen_shift_aggregate_proof(pf, tr) ==
    Bind(challenge_scalar(tr, "aggregate_witness"), LAMBDA v_draw :
    Bind(linear_combination(
             <<pf.evaluations.permutation_eval, pf.evaluations.a_next_eval,
               pf.evaluations.b_next_eval, pf.evaluations.d_next_eval>>,
             <<pf.z_comm, pf.a_comm, pf.b_comm, pf.d_comm>>,
             v_draw.value),
         LAMBDA combined :
    [commitment |-> combined.commitment, eval |-> combined.eval,
     challenge |-> v_draw.value, tr |-> v_draw.tr]))

\* An outcome with the arms of the batch check exchanged.
verify_outcome_exchanged(batch) ==
    CASE batch = "true" -> Outcome("ProofVerificationError", "none")
      [] batch = "false" -> Outcome("Ok", "none")
      [] OTHER -> Outcome("panic", "commitment")

\* The match on the batch check that ends Proof::verify
verify_outcome(batch) ==
    CASE batch = "true" -> Outcome("Ok", "none")
      [] batch = "false" -> Outcome("ProofVerificationError", "none")
      [] OTHER -> Outcome("panic", "commitment")

\* What a verification that stops before the batch check reports
NoCheck(res, why) ==
    [out |-> Outcome(res, why), batch |-> "none", beta |-> 0, gamma |-> 0,
     z_challenge |-> 0, pi_eval |-> 0, t_eval |-> 0, ops |-> <<>>,
     aggregate |-> [challenge |-> 0, eval |-> 0],
     shift_aggregate |-> [challenge |-> 0, eval |-> 0]]

\* Proof::verify(plonk_verifier_key, transcript, verifier_key, pub_inputs)
verify(pf, pvk, tr, pub_inputs, pc_fault) ==
    IF ~DomainExists(pvk.n) THEN NoCheck("panic", "domain") ELSE
    Bind(DomainSize(pvk.n), LAMBDA domain_size :
    Bind(WireRound(tr, <<pf.a_comm, pf.b_comm, pf.c_comm, pf.d_comm>>),
         LAMBDA round1 :
    IF round1.beta = round1.gamma THEN NoCheck("panic", "challenges") ELSE
    Bind(PermutationRound(round1.tr, pf.z_comm), LAMBDA round2 :
    Bind(QuotientRound(round2.tr,
                       <<pf.t_1_comm, pf.t_2_comm, pf.t_3_comm, pf.t_4_comm>>),
         LAMBDA round3 :
    Bind(FSub(FPow(round3.z_challenge, domain_size), 1), LAMBDA vanishing :
    Bind(compute_first_lagrange_evaluation(domain_size, vanishing,
                                           round3.z_challenge),
         LAMBDA first_lagrange :
    IF first_lagrange.panicked
    THEN [NoCheck("panic", "challenges") EXCEPT
             !.beta = round1.beta, !.gamma = round1.gamma,
             !.z_challenge = round3.z_challenge] ELSE
    Bind(compute_quotient_evaluation(
             pf.evaluations, pub_inputs, domain_size, round2.alpha, round1.beta,
             round1.gamma, round3.z_challenge, vanishing, first_lagrange.value,
             pf.evaluations.permutation_eval),
         LAMBDA quotient_eval :
    IF quotient_eval.panicked
    THEN [NoCheck("panic", "challenges") EXCEPT
             !.beta = round1.beta, !.gamma = round1.gamma,
             !.z_challenge = round3.z_challenge] ELSE
    Bind(gen_aggregate_proof(
             pf, quotient_eval.value,
             compute_quotient_commitment(pf, round3.z_challenge, domain_size),
             compute_linearisation_commitment(
                 pf, round2.alpha, round1.beta, round1.gamma, round3.z_challenge,
                 first_lagrange.value, pvk),
             pvk,
             EvaluationRound(round3.tr, pf.evaluations, quotient_eval.value)),
         LAMBDA aggregated :
    Bind(gen_shift_aggregate_proof(pf, aggregated.tr), LAMBDA shift_aggregated :
    Bind(batch_check(
             <<aggregated.commitment, shift_aggregated.commitment>>,
             <<round3.z_challenge,
               FMul(round3.z_challenge, group_gen(domain_size))>>,
             <<aggregated.eval, shift_aggregated.eval>>,
             <<pf.w_z_comm, pf.w_zw_comm>>,
             pc_fault),
         LAMBDA checked :
    [out |-> verify_outcome(checked), batch |-> checked,
     beta |-> round1.beta, gamma |-> round1.gamma,
     z_challenge |-> round3.z_challenge,
     pi_eval |-> quotient_eval.pi_eval, t_eval |-> quotient_eval.value,
     ops |-> append_commitment(
                 append_commitment(shift_aggregated.tr, "w_z", pf.w_z_comm),
                 "w_z_w", pf.w_zw_comm).log,
     aggregate |-> [challenge |-> aggregated.challenge,
                    eval |-> aggregated.eval],
     shift_aggregate |-> [challenge |-> shift_aggregated.challenge,
                          eval |-> shift_aggregated.eval]]))))))))))

(***************************************************************************)
(* gen_proof and verify_proof (src/circuit.rs).                            *)
(***************************************************************************)
\* Circuit::gen_proof(u_params, prover_key, transcript_init)
gen_proof(circuit, w, u_params, pk, lbl) ==
    Bind(trim(u_params, circuit.padded_circuit_size), LAMBDA trimmed :
    IF ~trimmed.ok THEN [out |-> Outcome("panic", "trim")] ELSE
    Bind(gadget(NewComposer, circuit, w), LAMBDA filled :
    IF filled.out.result # "Ok" THEN [out |-> filled.out] ELSE
    Bind(prove(filled.composer, pk, trimmed, lbl), LAMBDA proved :
    IF proved.out.result # "Ok" THEN [out |-> proved.out]
    ELSE [out |-> proved.out, proof |-> proved.proof,
          composer |-> filled.composer])))

\* FeIntoPubInput::into_pi: a scalar is one field value
FeIntoPubInput(x) == [values |-> <<x>>]

\* GeIntoPubInput::into_pi: a point of the embedded curve is x, then y
GeIntoPubInput(point) == [values |-> <<point[1], point[2]>>]

\* pub_input_values.iter().flat_map(|pub_input| pub_input.values.clone())
RECURSIVE flat_map_values(_)
flat_map_values(pub_input_values) ==
    IF pub_input_values = <<>> THEN <<>>
    ELSE Head(pub_input_values).values \o flat_map_values(Tail(pub_input_values))

\* A public-input vector that writes the values in their order from the
\* second row on, whatever their positions.
build_pi_in_order(pub_input_values, pub_input_pos, trim_size) ==
    IF \E k \in 1 .. Len(pub_input_pos) : pub_input_pos[k] >= trim_size
    THEN [panicked |-> TRUE, pi |-> <<>>]
    ELSE Bind(flat_map_values(pub_input_values), LAMBDA flat :
         [panicked |-> FALSE,
          pi |-> collect([i \in 1 .. trim_size |->
                             IF i >= 2 /\ i - 1 <= Len(flat)
                             THEN FNeg(flat[i - 1]) ELSE 0])])

\* A build_pi that refuses lists of different lengths
build_pi_checking_lengths(pub_input_values, pub_input_pos, trim_size) ==
    Bind(flat_map_values(pub_input_values), LAMBDA flat :
    IF \/ Len(flat) # Len(pub_input_pos)
       \/ \E k \in 1 .. Len(flat) : pub_input_pos[k] >= trim_size
    THEN [panicked |-> TRUE, pi |-> <<>>]
    ELSE [panicked |-> FALSE,
          pi |-> collect(
                     [i \in 1 .. trim_size |->
                         IF \E k \in 1 .. Len(flat) : pub_input_pos[k] = i - 1
                         THEN FNeg(flat[
                                  CHOOSE k \in 1 .. Len(flat) :
                                      /\ pub_input_pos[k] = i - 1
                                      /\ \A later \in (k + 1) .. Len(flat) :
                                             pub_input_pos[later] # i - 1])
                         ELSE 0])])

\* build_pi: a vector of trim_size zeros in which each flattened value,
\* negated, is written at the position zipped with it (the last write to a
\* position stays); indexing past the vector panics
build_pi(pub_input_values, pub_input_pos, trim_size) ==
    Bind(flat_map_values(pub_input_values), LAMBDA flat :
    LET pairs == IF Len(flat) < Len(pub_input_pos)
                 THEN Len(flat) ELSE Len(pub_input_pos)
    IN  IF \E k \in 1 .. pairs : pub_input_pos[k] >= trim_size
        THEN [panicked |-> TRUE, pi |-> <<>>]
        ELSE [panicked |-> FALSE,
              pi |-> collect(
                         [i \in 1 .. trim_size |->
                             IF \E k \in 1 .. pairs : pub_input_pos[k] = i - 1
                             THEN FNeg(flat[
                                      CHOOSE k \in 1 .. pairs :
                                          /\ pub_input_pos[k] = i - 1
                                          /\ \A later \in (k + 1) .. pairs :
                                                 pub_input_pos[later] # i - 1])
                             ELSE 0])])

\* VerifierKey::padded_circuit_size
padded_circuit_size(pvk) == next_power_of_two(pvk.n)

\* verify_proof(u_params, plonk_verifier_key, proof, pub_inputs_values,
\* pub_inputs_positions, transcript_init); pc_fault stands for a failure
\* inside the commitment scheme's batch check
verify_proof(u_params, pvk, pf, pub_input_values, pub_input_pos, lbl, pc_fault) ==
    IF ~trim(u_params, padded_circuit_size(pvk)).ok
    THEN NoCheck("panic", "trim") ELSE
    Bind(build_pi(pub_input_values, pub_input_pos, padded_circuit_size(pvk)),
         LAMBDA pi_vector :
        IF pi_vector.panicked THEN NoCheck("panic", "index")
        ELSE verify(pf, pvk, TranscriptNew(lbl), pi_vector.pi, pc_fault))

(***************************************************************************)
(* A circuit through its life: compile, gen_proof, verify_proof.           *)
(***************************************************************************)
\* Degrees of the universal parameters tried
SetupDegrees == {3, 32}

\* Values a circuit declares as its padded_circuit_size
PaddedSizes == {2, 4, 32}

\* Witness values tried
WitnessA == {0, 1, 2}

WitnessB == {0, 1, 2}

WitnessC == {0, 3}

\* Transcript labels tried
InitLabels == {"Test", "Other"}

\* Positions at which the verifier is given the public input
MaxPosition == 4

NoInputs == [values |-> <<>>, positions |-> <<>>, label |-> "none",
             fault |-> FALSE]

InitCircuit ==
    /\ \E max_degree \in SetupDegrees :
         \E declared \in PaddedSizes :
           \E with_ranges \in BOOLEAN :
             circ = [stage |-> "new",
                     out |-> Outcome("Ok", "none"),
                     u_params |-> [max_degree |-> max_degree],
                     circuit |-> [padded_circuit_size |-> declared,
                                  ranges |-> with_ranges],
                     witness |-> DefaultWitness,
                     label |-> "none",
                     inputs |-> NoInputs,
                     check |-> NoCheck("Ok", "none")]
    /\ stored = Idle
    /\ cs = Idle
    /\ perm = Idle
    /\ pout = Idle
    /\ ctl = Idle

\* compile: the stored are kept when it returns Ok
CircuitCompile ==
    /\ circ.stage = "new"
    /\ \E compiled \in {compile(circ.circuit, circ.u_params)} :
         /\ circ' = [circ EXCEPT !.stage = "compiled", !.out = compiled.out]
         /\ stored' = IF compiled.out.result = "Ok"
                      THEN [prover_key |-> compiled.prover_key,
                            verifier_data |-> compiled.verifier_data,
                            proof |-> <<>>]
                      ELSE stored
    /\ UNCHANGED <<perm, pout, cs, ctl>>

\* gen_proof on a witness, with the prover key of compile
CircuitGenProof(wa, wb, wc, lbl) ==
    /\ circ.stage = "compiled"
    /\ circ.out.result = "Ok"
    /\ \E generated \in {gen_proof(circ.circuit, [a |-> wa, b |-> wb, c |-> wc],
                                   circ.u_params, stored.prover_key, lbl)} :
         /\ circ' = [circ EXCEPT !.stage = "proved", !.out = generated.out,
                                 !.witness = [a |-> wa, b |-> wb, c |-> wc],
                                 !.label = lbl]
         /\ stored' = IF generated.out.result = "Ok"
                      THEN [stored EXCEPT !.proof = generated.proof]
                      ELSE stored
         /\ cs' = IF generated.out.result = "Ok" THEN generated.composer ELSE cs
    /\ UNCHANGED <<perm, pout, ctl>>

\* verify_proof on the proof, with the verifier key of compile
VerifyProof(vals, positions, lbl, fault) ==
    /\ circ.stage = "proved"
    /\ circ.out.result = "Ok"
    /\ \E verdict \in {verify_proof(circ.u_params, stored.verifier_data.key,
                                    stored.proof, vals, positions, lbl, fault)} :
         circ' = [circ EXCEPT !.stage = "verified", !.out = verdict.out,
                              !.inputs = [values |-> vals,
                                          positions |-> positions,
                                          label |-> lbl, fault |-> fault],
                              !.check = verdict]
    /\ UNCHANGED <<stored, perm, pout, cs, ctl>>

NextCircuit ==
    \/ CircuitCompile
    \/ \E a_value \in WitnessA : \E b_value \in WitnessB :
         \E c_value \in WitnessC : \E init_label \in InitLabels :
           CircuitGenProof(a_value, b_value, c_value, init_label)
    \/ \E delta \in {0, 1} : \E position \in 0 .. MaxPosition :
         \E init_label \in InitLabels : \E scheme_fails \in BOOLEAN :
           VerifyProof(<<FeIntoPubInput(FAdd(circ.witness.c, delta))>>, <<position>>,
                       init_label, scheme_fails)

SpecCircuit == InitCircuit /\ [][NextCircuit]_vars

(***************************************************************************)
(* Properties of the life of a circuit.                                    *)
(***************************************************************************)
\* verify_proof was given what compile and the witness prescribe: the public
\* input of the witness at the recorded positions, under the label of the
\* proof, and the commitment scheme worked
HonestInputs ==
    /\ circ.inputs.values = <<FeIntoPubInput(circ.witness.c)>>
    /\ circ.inputs.positions = stored.verifier_data.pi_pos
    /\ circ.inputs.label = circ.label
    /\ ~circ.inputs.fault

\* The proof that was verified is gen_proof's for a witness that satisfies
\* the circuit
ProofOfSatisfiedWitness == circ.stage = "verified" /\ Satisfied(cs)

CompleteWhenBatchChecked ==
    (ProofOfSatisfiedWitness /\ HonestInputs /\ circ.check.batch # "none")
        => circ.out.result = "Ok"

\* The public input of the witness was supplied at another position, all else
\* as prescribed
AtAnotherPosition ==
    /\ circ.inputs.values = <<FeIntoPubInput(circ.witness.c)>>
    /\ circ.inputs.positions # stored.verifier_data.pi_pos
    /\ circ.inputs.label = circ.label
    /\ ~circ.inputs.fault

\* C2 as stated: a public input value supplied at a position different from
\* the recorded one, whatever the value, is not accepted.
C2_AnyValueAtAnotherPosition ==
    (ProofOfSatisfiedWitness /\ AtAnotherPosition) => circ.out.result # "Ok"

\* C2: a non-zero public input value supplied at a position different from
\* the recorded one is not accepted: verify_proof returns
\* ProofVerificationError, or panics (a position outside the padded circuit,
\* or the panics of C6).
C2_PositionBinding ==
    (ProofOfSatisfiedWitness /\ AtAnotherPosition /\ circ.witness.c # 0)
        => circ.out.result # "Ok"

C2_Witness ==
    /\ ProofOfSatisfiedWitness
    /\ AtAnotherPosition
    /\ circ.witness.c # 0
    /\ circ.check.batch = "false"
    /\ circ.out.result = "ProofVerificationError"

\* C5: verify_proof returns Ok exactly when the batch check returned true and
\* ProofVerificationError exactly when it returned false.
C5_VerificationOutcome ==
    circ.stage = "verified" =>
        /\ circ.out.result = "Ok" <=> circ.check.batch = "true"
        /\ circ.out.result = "ProofVerificationError" <=> circ.check.batch = "false"

C5_Witness ==
    /\ circ.stage = "verified"
    /\ circ.check.batch = "false"
    /\ circ.out.result = "ProofVerificationError"
    /\ circ.inputs.label = circ.label

\* C6: no entry point panics on a trim failure, a domain-construction
\* failure, an error of the commitment scheme or degenerate challenges.
C6_ErrorsAreReturned ==
    ~(/\ circ.out.result = "panic"
      /\ circ.out.cause \in {"trim", "domain", "commitment", "challenges"})

(***************************************************************************)
(* The copy-constraint map against the wire vectors of the composer.       *)
(***************************************************************************)
\* The wire vector of the composer for each wire of WireData
WireVector(c, wire) ==
    CASE wire = "Left" -> c.w_l
      [] wire = "Right" -> c.w_r
      [] wire = "Output" -> c.w_o
      [] wire = "Fourth" -> c.w_4

\* The slots in the list of variable v in perm.variable_map
RecordedSlots(c, v) == {c.perm[v][i] : i \in 1 .. Len(c.perm[v])}

\* The slots (wire, g), g < n, whose wire vector holds v at row g
OccupiedSlots(c, v) ==
    {s \in [wire : Wires, index : 0 .. (c.n - 1)] :
        /\ s.index + 1 <= Len(WireVector(c, s.wire))
        /\ WireVector(c, s.wire)[s.index + 1] = v}

\* The last completed composer operation returned
Completed == ctl.status = "ok"

\* C11: after completed composer operations a slot (wire, g) is in the list
\* of variable v in perm.variable_map if and only if g < n and the wire
\* vector of that wire holds v at row g.
C11_MapTracksWires ==
    Completed => \A v \in DOMAIN cs.perm : RecordedSlots(cs, v) = OccupiedSlots(cs, v)

\* Every recorded slot has a gate index below n and its wire vector holds
\* the variable at that row (invariant I3 and the "only if" half).
RecordedSlotsAreOccupied ==
    Completed => \A v \in DOMAIN cs.perm : RecordedSlots(cs, v) \subseteq OccupiedSlots(cs, v)

\* Outside the rows of padding and the closing row of a range gate, which
\* hold zero_var, every occurrence is recorded.
OccurrencesRecordedButZeroVar ==
    Completed => \A v \in (DOMAIN cs.perm) \ {cs.zero_var} :
                     RecordedSlots(cs, v) = OccupiedSlots(cs, v)

\* C20: range_gate called with an odd num_bits panics before changing
\* anything: the composer (wires, selectors, variables, permutation map, n)
\* is the one it was called on.
C20_OddBitsPanicUnchanged ==
    [][(ctl'.op = "range_gate" /\ ctl'.ops = ctl.ops + 1 /\ ctl'.num_bits % 2 = 1)
           => (ctl'.status = "panic" /\ cs' = cs)]_vars

C20_Witness ==
    /\ ctl.op = "range_gate" /\ ctl.num_bits = 3 /\ ctl.status = "panic"
    /\ ctl.ops = 2 /\ cs.n > 0

(***************************************************************************)
(* build_pi on its own: public input values and positions are collected    *)
(* and the vector is built for a padded circuit size.                      *)
(***************************************************************************)
\* Most public input values and most positions handed to build_pi
MaxPiValues == 2

MaxPiPositions == 3

\* Largest position offered
MaxPiPosition == 4

\* Scalars and points offered as public inputs
PiScalars == {0, 3, 96}

PiPoints == {AFFINE_GENERATOR_COEFFS, te_zero}

\* Padded circuit sizes (powers of two)
PiSizes == {2, 4}

InitBuildPi ==
    /\ \E size \in PiSizes :
         circ = [stage |-> "inputs", pub_input_values |-> <<>>,
                 pub_input_pos |-> <<>>, trim_size |-> size,
                 result |-> [panicked |-> FALSE, pi |-> <<>>]]
    /\ perm = Idle /\ pout = Idle /\ cs = Idle /\ ctl = Idle /\ stored = Idle

\* A scalar public input: value.into_pi()
PiAddScalar(x) ==
    /\ circ.stage = "inputs"
    /\ Len(circ.pub_input_values) < MaxPiValues
    /\ circ' = [circ EXCEPT !.pub_input_values = Append(@, FeIntoPubInput(x))]
    /\ UNCHANGED <<perm, pout, cs, ctl, stored>>

\* A point public input: point.into_pi()
PiAddPoint(point) ==
    /\ circ.stage = "inputs"
    /\ Len(circ.pub_input_values) < MaxPiValues
    /\ circ' = [circ EXCEPT !.pub_input_values = Append(@, GeIntoPubInput(point))]
    /\ UNCHANGED <<perm, pout, cs, ctl, stored>>

\* One more public input position
PiAddPosition(pos) ==
    /\ circ.stage = "inputs"
    /\ Len(circ.pub_input_pos) < MaxPiPositions
    /\ circ' = [circ EXCEPT !.pub_input_pos = Append(@, pos)]
    /\ UNCHANGED <<perm, pout, cs, ctl, stored>>

\* build_pi(pub_input_values, pub_input_pos, trim_size)
BuildPi ==
    /\ circ.stage = "inputs"
    /\ circ' = [circ EXCEPT
                  !.stage = "built",
                  !.result = build_pi(circ.pub_input_values, circ.pub_input_pos,
                                      circ.trim_size)]
    /\ UNCHANGED <<perm, pout, cs, ctl, stored>>

NextBuildPi ==
    \/ \E x \in PiScalars : PiAddScalar(x)
    \/ \E point \in PiPoints : PiAddPoint(point)
    \/ \E pos \in 0 .. MaxPiPosition : PiAddPosition(pos)
    \/ BuildPi

SpecBuildPi == InitBuildPi /\ [][NextBuildPi]_vars

\* The elements of the public inputs: one per scalar, x then y per point
FlattenedElements == flat_map_values(circ.pub_input_values)

\* As many flattened elements as positions, the positions pairwise distinct
ElementsMatchPositions ==
    /\ Len(FlattenedElements) = Len(circ.pub_input_pos)
    /\ \A j, k \in 1 .. Len(circ.pub_input_pos) :
           j # k => circ.pub_input_pos[j] # circ.pub_input_pos[k]

\* The vector has the padded size, holds the negation of the j-th element at
\* the j-th position and zero elsewhere
IsPublicInputVector(pi) ==
    /\ Len(pi) = circ.trim_size
    /\ \A j \in 1 .. Len(circ.pub_input_pos) :
           /\ circ.pub_input_pos[j] < Len(pi)
           /\ pi[circ.pub_input_pos[j] + 1] = FNeg(FlattenedElements[j])
    /\ \A i \in 1 .. Len(pi) :
           (\A j \in 1 .. Len(circ.pub_input_pos) : circ.pub_input_pos[j] # i - 1)
               => pi[i] = 0

\* C13: given as many flattened elements as pairwise-distinct positions,
\* build_pi returns a vector of the padded circuit size whose entry at the
\* j-th position is the negation of the j-th element, every other entry zero.
C13_BuildPiVector ==
    (circ.stage = "built" /\ ElementsMatchPositions)
        => (~circ.result.panicked /\ IsPublicInputVector(circ.result.pi))

\* The same, for positions below the padded circuit size
BuildPiVectorInRange ==
    (/\ circ.stage = "built" /\ ElementsMatchPositions
     /\ \A j \in 1 .. Len(circ.pub_input_pos) : circ.pub_input_pos[j] < circ.trim_size)
        => (~circ.result.panicked /\ IsPublicInputVector(circ.result.pi))

\* A scalar and a point at three distinct positions in range
BuildPiOfScalarAndPoint ==
    /\ circ.stage = "built" /\ ElementsMatchPositions
    /\ Len(circ.pub_input_values) = 2 /\ Len(circ.pub_input_pos) = 3
    /\ ~circ.result.panicked /\ circ.result.pi # <<0, 0, 0, 0>>

(***************************************************************************)
(* The order of the verifier's transcript operations (Proof::verify).      *)
(***************************************************************************)
Appends(labels) == [i \in 1 .. Len(labels) |-> <<"append", labels[i]>>]

Challenges(labels) == [i \in 1 .. Len(labels) |-> <<"challenge", labels[i]>>]

\* The verification reached the batch check: every transcript operation of
\* Proof::verify was made
VerifiedThroughBatchCheck == circ.stage = "verified" /\ circ.check.batch # "none"

WireCommitmentLabels == <<"w_l", "w_r", "w_o", "w_4">>

SeparatorLabels ==
    <<"alpha", "range separation challenge", "logic separation challenge",
      "fixed base separation challenge", "variable base separation challenge">>

QuotientCommitmentLabels == <<"t_1", "t_2", "t_3", "t_4">>

\* The evaluations the proof carries, r(zeta) last
ProofEvaluationLabels ==
    <<"a_eval", "b_eval", "c_eval", "d_eval", "a_next_eval", "b_next_eval",
      "d_next_eval", "left_sig_eval", "right_sig_eval", "out_sig_eval",
      "q_arith_eval", "q_c_eval", "q_l_eval", "q_r_eval", "perm_eval", "r_eval">>

\* The evaluations as Proof::verify appends them: the quotient evaluation
\* the verifier computed goes in before r(zeta)
AppendedEvaluationLabels ==
    SubSeq(ProofEvaluationLabels, 1, 15) \o <<"t_eval", "r_eval">>

\* C14 as stated: commitments a..d; beta, gamma; z; alpha and the four
\* separators; t_1..t_4; zeta; the proof evaluations, r(zeta) last; the
\* batch-opening challenge; w_z, w_zw -- and nothing else in between.
C14_StatedOrder ==
    VerifiedThroughBatchCheck =>
        circ.check.ops =
            Appends(WireCommitmentLabels) \o Challenges(<<"beta", "gamma">>)
            \o Appends(<<"z">>) \o Challenges(SeparatorLabels)
            \o Appends(QuotientCommitmentLabels) \o Challenges(<<"z">>)
            \o Appends(ProofEvaluationLabels)
            \o Challenges(<<"aggregate_witness">>)
            \o Appends(<<"w_z", "w_z_w">>)

\* C14: the verifier's transcript operations are exactly: append the
\* commitments a..d; draw beta, append beta itself, draw gamma; append z;
\* draw alpha and the four separators; append t_1..t_4; draw zeta; append the
\* proof evaluations with the computed t(zeta) before r(zeta), which is
\* last; draw two aggregation challenges; append w_z, w_zw.
C14_TranscriptOrder ==
    VerifiedThroughBatchCheck =>
        circ.check.ops =
            Appends(WireCommitmentLabels) \o Challenges(<<"beta">>)
            \o Appends(<<"beta">>) \o Challenges(<<"gamma">>)
            \o Appends(<<"z">>) \o Challenges(SeparatorLabels)
            \o Appends(QuotientCommitmentLabels) \o Challenges(<<"z">>)
            \o Appends(AppendedEvaluationLabels)
            \o Challenges(<<"aggregate_witness", "aggregate_witness">>)
            \o Appends(<<"w_z", "w_z_w">>)

C14_Witness ==
    /\ VerifiedThroughBatchCheck /\ circ.out.result = "Ok"
    /\ Len(circ.check.ops) = 39

\* The operations appending one of the labels come before operation k
AppendedBefore(ops, labels, k) ==
    \A i \in 1 .. Len(labels) :
        \E j \in 1 .. (k - 1) : ops[j] = <<"append", labels[i]>>

\* The data a challenge of this label answers
RoundData(lbl) ==
    CASE lbl \in {"beta", "gamma"} -> WireCommitmentLabels
      [] lbl \in {SeparatorLabels[i] : i \in 1 .. 5} ->
             WireCommitmentLabels \o <<"z">>
      [] lbl = "z" -> WireCommitmentLabels \o <<"z">> \o QuotientCommitmentLabels
      [] lbl = "aggregate_witness" ->
             WireCommitmentLabels \o <<"z">> \o QuotientCommitmentLabels
             \o ProofEvaluationLabels

\* C15: every challenge is drawn only after the data of its round has been
\* appended, and no challenge is drawn once w_z and w_zw are appended.
C15_ChallengesAfterData ==
    VerifiedThroughBatchCheck =>
        \A k \in 1 .. Len(circ.check.ops) :
            circ.check.ops[k][1] = "challenge" =>
                /\ AppendedBefore(circ.check.ops, RoundData(circ.check.ops[k][2]), k)
                /\ \A j \in 1 .. (k - 1) :
                       circ.check.ops[j] \notin {<<"append", "w_z">>,
                                                 <<"append", "w_z_w">>}

C15_Witness ==
    /\ VerifiedThroughBatchCheck
    /\ circ.out.result = "ProofVerificationError"
    /\ \E k \in 1 .. Len(circ.check.ops) : circ.check.ops[k] = <<"challenge", "z">>
    /\ circ.check.ops[Len(circ.check.ops)] = <<"append", "w_z_w">>

\* The number of challenges drawn under a label
DrawsOf(ops, lbl) ==
    Cardinality({k \in 1 .. Len(ops) : ops[k] = <<"challenge", lbl>>})

\* The evaluations aggregated at zeta and at zeta omega
AggregatedEvaluations ==
    <<circ.check.t_eval, stored.proof.evaluations.linearisation_polynomial_eval,
      stored.proof.evaluations.a_eval, stored.proof.evaluations.b_eval,
      stored.proof.evaluations.c_eval, stored.proof.evaluations.d_eval,
      stored.proof.evaluations.left_sigma_eval,
      stored.proof.evaluations.right_sigma_eval,
      stored.proof.evaluations.out_sigma_eval>>

ShiftAggregatedEvaluations ==
    <<stored.proof.evaluations.permutation_eval,
      stored.proof.evaluations.a_next_eval, stored.proof.evaluations.b_next_eval,
      stored.proof.evaluations.d_next_eval>>

\* sum of v^i e_i
WeightedSum(evals, v) ==
    LET sum[i \in 0 .. Len(evals)] ==
            IF i = 0 THEN 0 ELSE FAdd(sum[i - 1], FMul(FPow(v, i - 1), evals[i]))
    IN  sum[Len(evals)]

\* C16 as stated: one batch-opening challenge v is drawn and weights both
\* aggregations.
C16_OneChallenge ==
    VerifiedThroughBatchCheck =>
        /\ DrawsOf(circ.check.ops, "aggregate_witness") = 1
        /\ circ.check.shift_aggregate.eval =
               WeightedSum(ShiftAggregatedEvaluations, circ.check.aggregate.challenge)

\* C16: the verifier draws two challenges under the label aggregate_witness,
\* one in each aggregation: the first weights the openings at zeta, the
\* second the openings at zeta omega.
C16_ChallengePerAggregation ==
    VerifiedThroughBatchCheck =>
        /\ DrawsOf(circ.check.ops, "aggregate_witness") = 2
        /\ circ.check.aggregate.eval =
               WeightedSum(AggregatedEvaluations, circ.check.aggregate.challenge)
        /\ circ.check.shift_aggregate.eval =
               WeightedSum(ShiftAggregatedEvaluations,
                           circ.check.shift_aggregate.challenge)

C16_Witness ==
    /\ VerifiedThroughBatchCheck /\ circ.check.batch = "true"
    /\ circ.check.aggregate.challenge # circ.check.shift_aggregate.challenge
    /\ circ.check.shift_aggregate.eval #
           WeightedSum(ShiftAggregatedEvaluations, circ.check.aggregate.challenge)
    /\ circ.check.shift_aggregate.eval # WeightedSum(ShiftAggregatedEvaluations, 1)

(***************************************************************************)
(* The size recorded in the keys that compile returns.                     *)
(***************************************************************************)
\* compile returned the keys
CompiledOk == circ.stage = "compiled" /\ circ.out.result = "Ok"

\* The gates the gadget of the circuit emits
GadgetGateCount == gadget(NewComposer, circ.circuit, DefaultWitness).composer.n

IsPowerOfTwo(size) == \E k \in 0 .. TWO_ADICITY : size = Pow2(k)

PreWitnesses == {[a |-> 1, b |-> 2, c |-> 3], [a |-> 2, b |-> 2, c |-> 3]}

\* Labels of the preprocessing transcripts
PreLabels == {"CircuitCompilation", "Test"}

\* Degrees of the commit keys
PreDegrees == {2, 32}

\* Ways a field is written directly
TamperKinds == {"selector", "wire", "n"}

\* Most preprocessings of one circuit: the prover's and the verifier's
MaxRuns == 2

InitPreprocess ==
    /\ \E w \in PreWitnesses : \E with_ranges \in BOOLEAN : \E lbl \in PreLabels :
         \E filled \in {gadget(NewComposer,
                               [padded_circuit_size |-> 32, ranges |-> with_ranges],
                               w)} :
           /\ cs = filled.composer
           /\ circ = [stage |-> "filled", label |-> lbl, tamper |-> "none",
                      before |-> filled.composer, runs |-> <<>>]
    /\ perm = Idle /\ pout = Idle /\ ctl = Idle /\ stored = Idle

\* A field of the filled composer is written directly
Tamper(kind) ==
    /\ circ.stage = "filled"
    /\ circ.tamper = "none"
    /\ \E tampered \in {CASE kind = "selector" -> [cs EXCEPT !.q_m = Append(@, 0)]
                          [] kind = "wire" -> [cs EXCEPT !.w_4 = Append(@, cs.zero_var)]
                          [] kind = "n" -> [cs EXCEPT !.n = @ + 1]} :
         /\ cs' = tampered
         /\ circ' = [circ EXCEPT !.tamper = kind, !.before = tampered]
    /\ UNCHANGED <<perm, pout, ctl, stored>>

\* The iteration orders of the variable map tried
IterationOrder(name, variable_map) ==
    IF name = "ascending" THEN AscendingOrder(variable_map)
    ELSE DescendingOrder(variable_map)

\* preprocess_prover or preprocess_verifier on a composer as the gadget
\* left it, with a fresh transcript of the circuit's label
Preprocess(side, order, degree) ==
    /\ circ.stage \in {"filled", "preprocessed"}
    /\ Len(circ.runs) < MaxRuns
    /\ \A k \in 1 .. Len(circ.runs) :
           circ.runs[k].side # side /\ circ.runs[k].degree = degree
    /\ \E done \in {IF side = "prover"
                    THEN preprocess_prover(
                             circ.before, [ok |-> TRUE, supported_degree |-> degree],
                             TranscriptNew(circ.label),
                             IterationOrder(order, circ.before.perm))
                    ELSE preprocess_verifier(
                             circ.before, [ok |-> TRUE, supported_degree |-> degree],
                             TranscriptNew(circ.label),
                             IterationOrder(order, circ.before.perm))} :
         /\ cs' = done.composer
         /\ circ' = [circ EXCEPT
                       !.stage = "preprocessed",
                       !.runs = Append(@, [side |-> side, order |-> order,
                                           degree |-> degree, out |-> done.out,
                                           composer |-> done.composer,
                                           transcript |-> done.transcript,
                                           comms |-> IF done.out.result = "Ok"
                                                     THEN IF side = "prover"
                                                          THEN done.commitments
                                                          ELSE done.verifier_key.comms
                                                     ELSE <<>>])]
    /\ UNCHANGED <<perm, pout, ctl, stored>>

NextPreprocess ==
    \/ \E kind \in TamperKinds : Tamper(kind)
    \/ \E side \in {"prover", "verifier"} : \E order \in {"ascending", "descending"} :
         \E degree \in PreDegrees : Preprocess(side, order, degree)

SpecPreprocess == InitPreprocess /\ [][NextPreprocess]_vars

\* The rows of a composer: its selectors and wires at row i
RowOf(c, i) ==
    [selectors |-> [name \in SelectorNames |-> c[name][i]],
     wires |-> <<c.w_l[i], c.w_r[i], c.w_o[i], c.w_4[i]>>]

\* A preprocessing of the filled composer that returned Ok
OkRuns == {k \in 1 .. Len(circ.runs) : circ.runs[k].out.result = "Ok"}

Preprocessed == circ.stage = "preprocessed"

\* C12: after preprocessing n is the size of the power-of-two domain of the
\* gate count before; every row appended has all eleven selectors zero and
\* all four wires zero_var; the rows there before are unchanged.
C12_Padding ==
    (Preprocessed /\ circ.tamper = "none") =>
        \A k \in OkRuns :
            LET after == circ.runs[k].composer
            IN  /\ IsPowerOfTwo(after.n)
                /\ after.n >= circ.before.n /\ after.n < 2 * circ.before.n
                /\ \A name \in SelectorNames : Len(after[name]) = after.n
                /\ \A wire \in Wires : Len(WireVector(after, wire)) = after.n
                /\ \A i \in 1 .. circ.before.n : RowOf(after, i) = RowOf(circ.before, i)
                /\ \A i \in (circ.before.n + 1) .. after.n :
                       RowOf(after, i) =
                           [selectors |-> ZeroSelectors,
                            wires |-> <<after.zero_var, after.zero_var,
                                        after.zero_var, after.zero_var>>]

C12_Witness ==
    /\ Preprocessed /\ circ.tamper = "none"
    /\ \E k \in OkRuns : circ.before.n = 3 /\ circ.runs[k].composer.n = 4
    /\ \E k \in OkRuns : circ.before.n = 3 /\ circ.runs[k].side = "prover"

\* The transcript operations of the seeding: the circuit size, then the
\* fifteen commitments
SeedingOperations ==
    Appends(<<"dom-sep", "n">>) \o Appends(CommitmentOrder)

\* C17: preprocessing appends the circuit size and the fifteen commitments
\* to the transcript; the prover's and the verifier's preprocessing of the
\* same gadget under the same label produce the same commitments and equal
\* transcript states, whatever the iteration order of the variable map.
C17_SameTranscript ==
    Preprocessed =>
        /\ \A k \in OkRuns : circ.runs[k].transcript.log = SeedingOperations
        /\ \A j, k \in OkRuns :
               /\ circ.runs[j].comms = circ.runs[k].comms
               /\ circ.runs[j].transcript = circ.runs[k].transcript

C17_Witness ==
    /\ Preprocessed /\ OkRuns = {1, 2} /\ circ.tamper = "none"
    /\ circ.runs[1].side = "prover" /\ circ.runs[2].side = "verifier"
    /\ circ.runs[1].order # circ.runs[2].order
    /\ circ.runs[1].transcript.st # TranscriptNew(circ.label).st

\* C19 as stated: whenever the selector and wire vectors do not all have
\* length n, preprocessing returns MismatchedPolyLen and leaves the composer
\* and the transcript as they were.
C19_MismatchRejected ==
    (Preprocessed /\ ~EqualLengths(circ.before)) =>
        \A k \in 1 .. Len(circ.runs) :
            /\ circ.runs[k].out.result = "MismatchedPolyLen"
            /\ circ.runs[k].composer = circ.before
            /\ circ.runs[k].transcript = TranscriptNew(circ.label)

\* When the vectors differ in length among themselves the preprocessing
\* returns MismatchedPolyLen and changes nothing.
UnequalVectorsRejected ==
    (Preprocessed /\ circ.tamper \in {"selector", "wire"}) =>
        \A k \in 1 .. Len(circ.runs) :
            /\ circ.runs[k].out.result = "MismatchedPolyLen"
            /\ circ.runs[k].composer = circ.before
            /\ circ.runs[k].transcript = TranscriptNew(circ.label)

\* Vectors of one length that is not n pass the check
MiscountedGatesAccepted ==
    /\ Preprocessed /\ circ.tamper = "n"
    /\ \E k \in OkRuns : circ.runs[k].composer # circ.before

(***************************************************************************)
(* The indices of the variables of the permutation.                        *)
(***************************************************************************)
\* The keys of variable_map are 0 .. count - 1
KeysAreSequential(variable_map) ==
    DOMAIN variable_map = 0 .. (Cardinality(DOMAIN variable_map) - 1)

\* C21: the k-th call of new_variable (from 0) allocates Variable(k) and
\* grows variable_map by exactly one empty entry, every other entry kept; at
\* all times the keys of variable_map are exactly 0 .. count - 1, so no
\* index is handed out twice.
C21_SequentialIndices ==
    [][/\ KeysAreSequential(perm'.variable_map)
       /\ Len(perm'.values) > Len(perm.values) =>
              LET k == Cardinality(DOMAIN perm.variable_map)
              IN  /\ k \notin DOMAIN perm.variable_map
                  /\ DOMAIN perm'.variable_map = (DOMAIN perm.variable_map) \cup {k}
                  /\ perm'.variable_map[k] = <<>>
                  /\ \A v \in DOMAIN perm.variable_map :
                         perm'.variable_map[v] = perm.variable_map[v]]_vars

C21_Witness ==
    /\ DOMAIN perm.variable_map = {0, 1, 2}
    /\ perm.variable_map[2] = <<>>
    /\ perm.variable_map[0] # <<>>

(***************************************************************************)
(* The rows a range gate adds.                                             *)
(***************************************************************************)
\* The step is a call of range_gate that returned
RangeGateReturned ==
    /\ ctl'.op = "range_gate" /\ ctl'.ops = ctl.ops + 1 /\ ctl'.status = "ok"

FieldModuli == {97, 251, 257, 32749, 65521}

\* F::size_in_bits(): the length of the modulus in bits
size_in_bits(modulus) ==
    CHOOSE b \in 1 .. 32 : Pow2(b - 1) <= modulus /\ modulus < Pow2(b)

\* A buffer of one more byte whenever the modulus does not end on a byte
size_rounded_up(modulus) == (size_in_bits(modulus) + 7) \div 8

\* let size = E::Fr::size_in_bits() / 8: the length of the buffer in bytes
size(modulus) == size_in_bits(modulus) \div 8

\* Transcript::challenge_bytes(label, buf): the label and the length are
\* absorbed and every byte of the buffer is squeezed from the state
challenge_bytes(tr, lbl, len) ==
    Bind(Mix(Mix(tr.st, LabelCode(lbl)), len), LAMBDA drawn :
        [buf |-> [j \in 1 .. len |-> Mix(drawn, j) % 256],
         tr |-> [st |-> drawn, log |-> Append(tr.log, <<"challenge", lbl>>)]])

\* The integer a buffer holds in little-endian order
from_le_bytes(buf) ==
    LET value[j \in 0 .. Len(buf)] ==
            IF j = 0 THEN 0 ELSE value[j - 1] + (buf[j] * Pow2(8 * (j - 1)))
    IN  value[Len(buf)]

\* F::from_random_bytes(buf): the buffer is copied into a representation of
\* full length, the bits above the modulus length are cleared, and the
\* integer is a field element only if it is below the modulus (None if not)
from_random_bytes(modulus, buf) ==
    LET repr == (size_in_bits(modulus) + 7) \div 8
        copied == [j \in 1 .. repr |-> IF j <= Len(buf) THEN buf[j] ELSE 0]
        masked == from_le_bytes(copied) % Pow2(size_in_bits(modulus))
    IN  IF masked < modulus THEN [some |-> TRUE, value |-> masked]
        ELSE [some |-> FALSE, value |-> 0]

\* challenge_scalar(label) for the field of the given modulus; unwrap()
\* panics on None
challenge_scalar_in(modulus, tr, lbl) ==
    LET drawn == challenge_bytes(tr, lbl, size(modulus))
        element == from_random_bytes(modulus, drawn.buf)
    IN  [panicked |-> ~element.some, value |-> element.value,
         buf |-> drawn.buf, tr |-> drawn.tr]

MaxAppends == 2
AppendedScalars == {0, 3, 96}
ChallengeLabels == {"beta", "gamma"}

InitChallenge ==
    /\ perm = Idle /\ pout = Idle /\ cs = Idle /\ ctl = Idle /\ stored = Idle
    /\ \E modulus \in FieldModuli, lbl \in InitLabels :
          circ = [stage |-> "absorbing", modulus |-> modulus,
                  tr |-> TranscriptNew(lbl), buf |-> <<>>, value |-> 0,
                  panicked |-> FALSE]

\* transcript.append_scalar(label, s)
ChallengeAppendScalar(s) ==
    /\ circ.stage = "absorbing"
    /\ Len(circ.tr.log) < MaxAppends
    /\ circ' = [circ EXCEPT !.tr = append_scalar(@, "a_eval", s)]
    /\ UNCHANGED <<perm, pout, cs, ctl, stored>>

\* transcript.challenge_scalar(label)
ChallengeScalar(lbl) ==
    /\ circ.stage = "absorbing"
    /\ \E r \in {challenge_scalar_in(circ.modulus, circ.tr, lbl)} :
          circ' = [circ EXCEPT !.stage = "drawn", !.tr = r.tr, !.buf = r.buf,
                               !.value = r.value, !.panicked = r.panicked]
    /\ UNCHANGED <<perm, pout, cs, ctl, stored>>

NextChallenge ==
    \/ \E s \in AppendedScalars : ChallengeAppendScalar(s)
    \/ \E lbl \in ChallengeLabels : ChallengeScalar(lbl)

SpecChallenge == InitChallenge /\ [][NextChallenge]_vars

\* C23 as stated: a challenge is ceil(bits(F) / 8) bytes of the transcript
\* reduced into F, a field element for every state of the transcript.
C23_CeilBytesReduced ==
    circ.stage = "drawn" =>
        /\ Len(circ.buf) = (size_in_bits(circ.modulus) + 7) \div 8
        /\ ~circ.panicked
        /\ circ.value = from_le_bytes(circ.buf) % circ.modulus

\* C23: challenge_scalar draws bits(F) / 8 whole bytes, rounded down, and
\* takes their little-endian integer without reducing it: the call returns
\* that integer if it is below the modulus and panics if it is not.  When
\* bits(F) is not a multiple of 8 the buffer is shorter than the modulus, so
\* the call returns for every state of the transcript.
C23_WholeBytesUnreduced ==
    circ.stage = "drawn" =>
        LET bits == size_in_bits(circ.modulus)
            drawn == from_le_bytes(circ.buf)
        IN  /\ Len(circ.buf) = bits \div 8
            /\ circ.panicked <=> drawn >= circ.modulus
            /\ ~circ.panicked => circ.value = drawn /\ circ.value < circ.modulus
            /\ bits % 8 # 0 =>
                   ~circ.panicked /\ circ.value < Pow2(8 * (bits \div 8))

C23_Witness ==
    /\ circ.stage = "drawn" /\ circ.modulus = 32749
    /\ Len(circ.tr.log) = 3 /\ ~circ.panicked
    /\ Len(circ.buf) = 1 /\ circ.value = circ.buf[1] /\ circ.value > 128

(***************************************************************************)
(* The layout of the rows of a range gate.                                 *)
(***************************************************************************)
\* The variable at the i-th accumulator position (from 0) of the gates laid
\* out after row first: fourth, output, right, left wire of one row, then
\* the next row
RangeWireAt(c, first, i) ==
    LET row == first + 1 + (i \div 4)
    IN  CASE i % 4 = 0 -> c.w_4[row]
          [] i % 4 = 1 -> c.w_o[row]
          [] i % 4 = 2 -> c.w_r[row]
          [] i % 4 = 3 -> c.w_l[row]

\* Every selector of the row but q_range is zero
OnlyRangeSelector(c, row) ==
    /\ c.q_m[row] = 0 /\ c.q_l[row] = 0 /\ c.q_r[row] = 0 /\ c.q_o[row] = 0
    /\ c.q_4[row] = 0 /\ c.q_c[row] = 0 /\ c.q_arith[row] = 0
    /\ c.q_logic[row] = 0 /\ c.q_fixed_group_add[row] = 0
    /\ c.q_variable_group_add[row] = 0

FixedBaseReturned ==
    /\ ctl'.op = "fixed_base_scalar_mul" /\ ctl'.ops = ctl.ops + 1
    /\ ctl'.status = "ok"

\* The selectors of the row are those of a gate constraining its left wire
\* to the constant
ConstantRow(c, row, var, constant) ==
    /\ c.w_l[row] = var
    /\ c.q_l[row] = 1 /\ c.q_c[row] = FNeg(constant) /\ c.q_arith[row] = 1
    /\ c.q_m[row] = 0 /\ c.q_r[row] = 0 /\ c.q_o[row] = 0 /\ c.q_4[row] = 0
    /\ c.q_fixed_group_add[row] = 0

\* The point and the scalar accumulator the row carries
AccumulatorOfRow(c, row) ==
    [point |-> <<ValueOf(c, c.w_l[row]), ValueOf(c, c.w_r[row])>>,
     scalar |-> ValueOf(c, c.w_4[row])]

\* The accumulator of the next row is the doubled scalar and the point of
\* this row with one of -1, 0, 1 times the row's multiple of the base added
WnafStep(c, row) ==
    LET this == AccumulatorOfRow(c, row)
        next == AccumulatorOfRow(c, row + 1)
        multiple == <<c.q_l[row], c.q_r[row]>>
    IN  \/ /\ next.scalar = FMul(2, this.scalar) /\ next.point = this.point
        \/ /\ next.scalar = FAdd(FMul(2, this.scalar), 1)
           /\ next.point = te_add(this.point, multiple)
        \/ /\ next.scalar = FSub(FMul(2, this.scalar), 1)
           /\ next.point = te_add(this.point, te_neg(multiple))

\* The rows a returned fixed_base_scalar_mul leaves after the rows of before:
\* three rows constraining the first accumulator, MODULUS_BITS
\* fixed-group-add rows, the row of the last accumulator with q_arith as
\* given, and the assert_equal gate on the last scalar accumulator.
FixedBaseRows(before, after, scalar, point, final_q_arith) ==
    LET first == before.n
        allocated == Cardinality(DOMAIN before.variables)
        gate(i) == first + 4 + i
        last == gate(MODULUS_BITS)
    IN  /\ ConstantRow(after, first + 1, allocated, 0)
        /\ ConstantRow(after, first + 2, allocated + 1, 1)
        /\ ConstantRow(after, first + 3, allocated + 2, 0)
        /\ \A i \in 0 .. (MODULUS_BITS - 1) :
              /\ after.q_fixed_group_add[gate(i)] = 1
              /\ after.q_arith[gate(i)] = 0 /\ after.q_range[gate(i)] = 0
              /\ after.w_l[gate(i)] = allocated + (4 * i)
              /\ after.w_r[gate(i)] = allocated + (4 * i) + 1
              /\ after.w_4[gate(i)] = allocated + (4 * i) + 2
              /\ after.w_o[gate(i)] = allocated + (4 * i) + 3
              /\ after.q_c[gate(i)] = FMul(after.q_l[gate(i)], after.q_r[gate(i)])
              /\ WnafStep(after, gate(i))
        /\ AccumulatorOfRow(after, gate(0)) = [point |-> te_zero, scalar |-> 0]
        /\ after.q_fixed_group_add[last] = 0 /\ after.q_range[last] = 0
        /\ after.q_logic[last] = 0 /\ after.q_variable_group_add[last] = 0
        /\ after.q_m[last] = 0 /\ after.q_l[last] = 0 /\ after.q_r[last] = 0
        /\ after.q_o[last] = 0 /\ after.q_4[last] = 0 /\ after.q_c[last] = 0
        /\ after.q_arith[last] = final_q_arith
        /\ after.w_o[last] = before.zero_var
        /\ point = <<after.w_l[last], after.w_r[last]>>
        /\ after.n = last + 1
        /\ after.w_l[last + 1] = after.w_4[last] /\ after.w_r[last + 1] = scalar
        /\ after.q_l[last + 1] = 1 /\ after.q_r[last + 1] = FNeg(1)
        /\ after.q_arith[last + 1] = 1
        /\ AccumulatorOfRow(after, last).scalar = ValueOf(after, scalar)

BarycentricSizes == {2, 4}
EvaluationValues == {0, 1, 96}

\* L_i(point) for the i-th element (from 0) of the domain of the given size:
\* the product of (point - w^j) / (w^i - w^j) over the other elements
LagrangeBasisAt(sz, i, point) ==
    LET w == group_gen(sz)
    IN  ProdTo([k \in 1 .. sz |->
                   IF k - 1 = i THEN 1
                   ELSE FMul(FSub(point, FPow(w, k - 1)),
                             FInv(FSub(FPow(w, i), FPow(w, k - 1))))],
               sz)

\* The value at point of the polynomial of degree below sz that takes the
\* given evaluations on the domain (zero where none is given)
InterpolationAt(evaluations, point, sz) ==
    SumTo([k \in 1 .. Len(evaluations) |->
              FMul(evaluations[k], LagrangeBasisAt(sz, k - 1, point))],
          Len(evaluations))

InitBarycentric ==
    /\ perm = Idle /\ pout = Idle /\ cs = Idle /\ ctl = Idle /\ stored = Idle
    /\ \E sz \in BarycentricSizes :
          circ = [stage |-> "filling", size |-> sz, evaluations |-> <<>>,
                  point |-> 0, value |-> 0]

\* One more evaluation of the vector
BarycentricPush(x) ==
    /\ circ.stage = "filling"
    /\ Len(circ.evaluations) < circ.size
    /\ circ' = [circ EXCEPT !.evaluations = Append(@, x)]
    /\ UNCHANGED <<perm, pout, cs, ctl, stored>>

\* compute_barycentric_eval(evaluations, point, domain)
BarycentricEval(point) ==
    /\ circ.stage = "filling"
    /\ circ' = [circ EXCEPT
                  !.stage = "evaluated", !.point = point,
                  !.value = compute_barycentric_eval(circ.evaluations, point,
                                                     circ.size)]
    /\ UNCHANGED <<perm, pout, cs, ctl, stored>>

NextBarycentric ==
    \/ \E x \in EvaluationValues : BarycentricPush(x)
    \/ \E point \in 0 .. (P - 1) : BarycentricEval(point)

SpecBarycentric == InitBarycentric /\ [][NextBarycentric]_vars

\* The point is an element of the domain of the given size
InDomain(sz, point) == \E i \in 1 .. sz : DomainElements(sz)[i] = point

\* Off the domain the result is the value of the interpolating polynomial
BarycentricOffDomain ==
    (circ.stage = "evaluated" /\ ~InDomain(circ.size, circ.point))
    => circ.value = InterpolationAt(circ.evaluations, circ.point, circ.size)

\* On the domain the result is zero, whatever the evaluations are
BarycentricZeroOnDomain ==
    (circ.stage = "evaluated" /\ InDomain(circ.size, circ.point))
    => circ.value = 0

\* C26: for every vector of evaluations over the domain of size n and every
\* point of F, compute_barycentric_eval returns the value at the point of
\* the interpolating polynomial of degree below n, the sum of
\* evaluations[i] * L_i(point).
C26_BarycentricIsInterpolation ==
    circ.stage = "evaluated"
    => circ.value = InterpolationAt(circ.evaluations, circ.point, circ.size)

(***************************************************************************)
(* The curve addition gate                                                 *)
(* (src/proof_system/widget/ecc/curve_addition.rs).                        *)
(***************************************************************************)
\* CurveAddition::constraints(separation_challenge, values)
constraints(separation_challenge, values) ==
    LET x_1 == values.left
        x_3 == values.left_next
        y_1 == values.right
        y_3 == values.right_next
        x_2 == values.output
        y_2 == values.fourth
        x1_y2 == values.fourth_next
        kappa == FMul(separation_challenge, separation_challenge)
        xy_consistency == FSub(FMul(x_1, y_2), x1_y2)
        y1_x2 == FMul(y_1, x_2)
        y1_y2 == FMul(y_1, y_2)
        x1_x2 == FMul(x_1, x_2)
        x3_lhs == FAdd(x1_y2, y1_x2)
        x3_rhs == FAdd(x_3, FMul(FMul(FMul(x_3, COEFF_D), x1_y2), y1_x2))
        x3_consistency == FMul(FSub(x3_lhs, x3_rhs), kappa)
        y3_lhs == FAdd(y1_y2, x1_x2)
        y3_rhs == FSub(y_3, FMul(FMul(FMul(y_3, COEFF_D), x1_y2), y1_x2))
        y3_consistency == FMul(FSub(y3_lhs, y3_rhs), FMul(kappa, kappa))
    IN  FMul(FAdd(FAdd(xy_consistency, x3_consistency), y3_consistency),
             separation_challenge)

\* The sum of two points of the twisted Edwards curve
\* a x^2 + y^2 = 1 + COEFF_D x^2 y^2
te_sum(coeff_a, p1, p2) ==
    LET x1x2 == FMul(p1[1], p2[1])
        y1y2 == FMul(p1[2], p2[2])
        dxy == FMul(COEFF_D, FMul(x1x2, y1y2))
    IN  << FMul(FAdd(FMul(p1[1], p2[2]), FMul(p1[2], p2[1])), FInv(FAdd(1, dxy))),
           FMul(FSub(y1y2, FMul(coeff_a, x1x2)), FInv(FSub(1, dxy))) >>

RECURSIVE te_multiple(_, _, _)
te_multiple(coeff_a, p1, k) ==
    IF k = 0 THEN te_zero ELSE te_sum(coeff_a, te_multiple(coeff_a, p1, k - 1), p1)

\* The point is on the curve of the given coefficient a
OnCurve(coeff_a, p1) ==
    LET xx == FMul(p1[1], p1[1])
        yy == FMul(p1[2], p1[2])
    IN  FAdd(FMul(coeff_a, xx), yy) = FAdd(1, FMul(COEFF_D, FMul(xx, yy)))

\* The coefficients a of the curves the gate is evaluated for, and a point
\* of large order on each
CurveCoeffsA == {COEFF_A, 1, 2}
CurveBase(coeff_a) ==
    CASE coeff_a = COEFF_A -> AFFINE_GENERATOR_COEFFS
      [] coeff_a = 1 -> <<4, 23>>
      [] coeff_a = 2 -> <<2, 4>>

MaxMultiple == 4
CurvePoints(coeff_a) ==
    {te_multiple(coeff_a, CurveBase(coeff_a), k) : k \in 0 .. MaxMultiple}
SeparationChallenges == {0, 1, 5, 63}

InitCurveAddition ==
    /\ perm = Idle /\ pout = Idle /\ cs = Idle /\ ctl = Idle /\ stored = Idle
    /\ \E coeff_a \in CurveCoeffsA :
          circ = [stage |-> "points", coeff_a |-> coeff_a, points |-> <<>>,
                  values |-> <<>>, challenge |-> 0, result |-> 0]

\* One more point of the curve: the two summands, then the point of the
\* next row
CurveChoosePoint(p1) ==
    /\ circ.stage = "points"
    /\ Len(circ.points) < 3
    /\ circ' = [circ EXCEPT !.points = Append(@, p1)]
    /\ UNCHANGED <<perm, pout, cs, ctl, stored>>

\* The gate is evaluated on the row of the two summands followed by the row
\* of the third point, with x1 * y2 on the fourth wire of the next row
CurveConstraints(separation_challenge) ==
    /\ circ.stage = "points"
    /\ Len(circ.points) = 3
    /\ LET values == [left |-> circ.points[1][1], right |-> circ.points[1][2],
                      output |-> circ.points[2][1], fourth |-> circ.points[2][2],
                      left_next |-> circ.points[3][1],
                      right_next |-> circ.points[3][2],
                      fourth_next |-> FMul(circ.points[1][1], circ.points[2][2])]
       IN  circ' = [circ EXCEPT
                      !.stage = "evaluated", !.values = values,
                      !.challenge = separation_challenge,
                      !.result = constraints(separation_challenge, values)]
    /\ UNCHANGED <<perm, pout, cs, ctl, stored>>

NextCurveAddition ==
    \/ \E p1 \in CurvePoints(circ.coeff_a) : CurveChoosePoint(p1)
    \/ \E separation_challenge \in SeparationChallenges :
          CurveConstraints(separation_challenge)

SpecCurveAddition == InitCurveAddition /\ [][NextCurveAddition]_vars

\* The next row holds the sum of the two points of the row
RowHoldsSum ==
    /\ circ.stage = "evaluated"
    /\ circ.values.fourth_next = FMul(circ.values.left, circ.values.fourth)
    /\ <<circ.values.left_next, circ.values.right_next>>
           = te_sum(circ.coeff_a, circ.points[1], circ.points[2])

\* The points chosen are points of the curve
ChosenPointsOnCurve ==
    circ.stage = "evaluated" =>
        \A i \in 1 .. 3 : OnCurve(circ.coeff_a, circ.points[i])

\* On a curve with a = -1 the gate is zero on every row that holds a sum
ZeroOnSumsWhenMinusOne ==
    (RowHoldsSum /\ circ.coeff_a = COEFF_A) => circ.result = 0

\* C27: for any parameters of the twisted Edwards curve and any separation
\* challenge, CurveAddition::constraints is zero whenever fourth_next is
\* x1 * y2 and (left_next, right_next) is the sum of (left, right) and
\* (output, fourth).
C27_ZeroOnSums ==
    RowHoldsSum => circ.result = 0

(***************************************************************************)
(* The length of the wNAF of the scalar of a fixed-base multiplication.    *)
(***************************************************************************)
\* The scalars whose width-2 wNAF is not longer than the modulus
WnafFitsModulus(k) == Len(find_wnaf(k)) <= MODULUS_BITS

\* A fixed_base_scalar_mul returns exactly for the scalars whose wNAF fits
FixedBaseReturnsIffWnafFits ==
    (ctl.op = "fixed_base_scalar_mul" /\ ctl.status # "ok")
    => (ctl.status = "panic" /\ ~WnafFitsModulus(ValueOf(cs, ctl.witness)))

\* C29: for every field element held by the scalar witness the width-2 wNAF
\* has at most MODULUS_BITS digits, so the assertion of
\* fixed_base_scalar_mul on its length never fails and num_bits minus the
\* length never underflows.
C29_WnafNeverLonger ==
    ctl.op = "fixed_base_scalar_mul"
    => /\ WnafFitsModulus(ValueOf(cs, ctl.witness))
       /\ ctl.status = "ok"

(***************************************************************************)
(* The structure of a gadget's rows against the value of its witness.      *)
(***************************************************************************)
\* What the preprocessing reads of a composer: everything but the values
\* assigned to the variables
Structure(c) == [c EXCEPT !.variables = DOMAIN @]

\* The composer with another value assigned to the witness
WithWitness(c, witness, x) == [c EXCEPT !.variables[witness] = x]

\* The gadget of the step, run on the composer with x assigned to its witness
GadgetWithWitness(x) ==
    IF ctl'.op = "range_gate"
    THEN range_gate(WithWitness(cs, ctl'.witness, x), ctl'.witness, ctl'.num_bits)
    ELSE LET r == fixed_base_scalar_mul(WithWitness(cs, ctl'.witness, x),
                                        ctl'.witness, AFFINE_GENERATOR_COEFFS)
         IN  [c |-> r.c, panicked |-> r.panicked]

\* The step is a call of one of the two gadgets on an input variable
GadgetStep ==
    /\ ctl'.ops = ctl.ops + 1
    /\ ctl'.op \in {"range_gate", "fixed_base_scalar_mul"}
    /\ ctl'.witness # cs.zero_var

\* With x assigned to the witness the gadget leaves the same rows, selectors,
\* variables and slot lists, and ends the same way
SameStructureFor(x) ==
    LET again == GadgetWithWitness(x)
    IN  /\ again.panicked = (ctl'.status = "panic")
        /\ Structure(again.c) = Structure(cs')

\* The rows of a range gate are the same for every value of the witness
RangeGateWitnessIndependent ==
    [][(GadgetStep /\ ctl'.op = "range_gate")
       => \A x \in InputVals : SameStructureFor(x)]_vars

\* The rows of a fixed-base multiplication are the same for every two
\* scalars whose wNAF fits the modulus
FixedBaseIndependentWhenFits ==
    [][(GadgetStep /\ ctl'.op = "fixed_base_scalar_mul" /\ ctl'.status = "ok")
       => \A x \in {k \in InputVals : WnafFitsModulus(k)} : SameStructureFor(x)]_vars

\* C28: the rows emitted by range_gate(v, num_bits) and
\* fixed_base_scalar_mul(k, G), their selectors, the variables allocated and
\* the slot list of every variable are the same for every value of the
\* witness, so composers filled with different witnesses have the same
\* selectors and variable_map.
C28_WitnessIndependent ==
    [][GadgetStep => \A x \in InputVals : SameStructureFor(x)]_vars

(***************************************************************************)
(* build_pi on lists of different lengths.                                 *)
(***************************************************************************)
\* The number of pairs the zip of the elements and the positions yields
PairedCount ==
    IF Len(FlattenedElements) < Len(circ.pub_input_pos)
    THEN Len(FlattenedElements) ELSE Len(circ.pub_input_pos)

\* The vector after the first j pairs were written, one after the other,
\* into trim_size zeros
RECURSIVE PiAfterWrites(_)
PiAfterWrites(j) ==
    IF j = 0 THEN [i \in 1 .. circ.trim_size |-> 0]
    ELSE [PiAfterWrites(j - 1) EXCEPT
            ![circ.pub_input_pos[j] + 1] = FNeg(FlattenedElements[j])]

\* C30: given k flattened elements and m positions with k # m, build_pi
\* pairs them in order and makes exactly the writes of the first min(k, m)
\* pairs; it reports nothing for the mismatch (it fails only on a paired
\* position outside the vector), the surplus elements or positions are
\* ignored, and every entry no pair addresses stays zero.
C30_MismatchTruncates ==
    (circ.stage = "built" /\ Len(FlattenedElements) # Len(circ.pub_input_pos))
    => /\ circ.result.panicked
              <=> \E j \in 1 .. PairedCount : circ.pub_input_pos[j] >= circ.trim_size
       /\ ~circ.result.panicked =>
              /\ circ.result.pi = PiAfterWrites(PairedCount)
              /\ \A i \in 1 .. circ.trim_size :
                     (\A j \in 1 .. PairedCount : circ.pub_input_pos[j] # i - 1)
                         => circ.result.pi[i] = 0

C30_Witness ==
    /\ circ.stage = "built" /\ ~circ.result.panicked
    /\ Len(FlattenedElements) = 3 /\ circ.pub_input_pos = <<3, 1>>
    /\ circ.result.pi = <<0, FNeg(FlattenedElements[2]), 0, FNeg(FlattenedElements[1])>>
    /\ FlattenedElements[1] # 0 /\ FlattenedElements[2] # 0

=============================================================================
